---- MODULE Spec2Model ----
(***************************************************************************)
(* Model of cervo: the ScratchPad / Batcher of cervo-core and the          *)
(* multi-model Runtime of cervo-runtime.                                   *)
(*                                                                         *)
(* Three specifications share the ScratchPad and Batcher operators:        *)
(*   Spec         the sequential Runtime (runtime.rs, state.rs, timing.rs) *)
(*   SpecLib      the Runtime declared in the crate root (lib.rs)          *)
(*   SpecBatcher  one Batcher driven by one inferer (batcher.rs)           *)
(*                                                                         *)
(* f32 values are modelled as integers; Durations are whole milliseconds   *)
(* and the comparisons of can_run_in_time are done in exact arithmetic.    *)
(***************************************************************************)
EXTENDS Integers, Sequences, FiniteSets, TLC

\* ---------------------------------------------------------------- bounds
\* number of BrainIds one runtime hands out
MaxBrains == 3
\* largest number of agents queued in one model of the runtime
MaxBatch == 1
\* largest ticket sequence number add_inferer hands out; run_for may go one
\* further
MaxTicket == 5
\* largest number of timing samples in one bucket
MaxSamples == 2
\* largest number of pushes between two executes of the lone Batcher
MaxPush == 3
\* largest number of execute calls on the lone Batcher
MaxExecutes == 2
\* largest number of agents handed to a FixedBatchInferer in one batch
MaxCount == 15
MaxQueued == 5
\* largest number of agents queued in one model where the timing buckets
\* are followed, and the number of models there
MaxTimedBatch == 2
MaxTimedModels == 2
\* largest number of tickets in the queue of a runtime run in threaded mode
MaxTickets == 4

\* ------------------------------------------------------ program constants
DEFAULT_CAPACITY == 6

\* ------------------------------------------------------------- utilities
Min(a, b) == IF a <= b THEN a ELSE b

Range(s) == {s[i] : i \in DOMAIN s}

RECURSIVE SumSeq(_)
SumSeq(s) == IF s = <<>> THEN 0 ELSE s[1] + SumSeq(Tail(s))

\* a variant that forgets to take the elapsed time off the budget
saturating_sub_skipped(a, b) == a

\* Rust's saturating_sub on Duration
saturating_sub(a, b) == IF a >= b THEN a - b ELSE 0

\* --------------------------------------------------------- ScratchPadData
ScratchPadData_reserve(slot, batch_size) ==
    [slot EXCEPT !.data = [i \in 1..(batch_size * slot.count) |->
                              IF i <= Len(slot.data) THEN slot.data[i] ELSE 0]]

ScratchPadData_new(name, count, capacity) ==
    ScratchPadData_reserve([name |-> name, data |-> <<>>, count |-> count], capacity)

\* the slice data[a*count .. b*count] exists (Rust panics when it does not)
ViewInBounds(slot, a, b) == a <= b /\ b * slot.count <= Len(slot.data)

ScratchPadData_view(slot, a, b) == SubSeq(slot.data, a * slot.count + 1, b * slot.count)

\* what writing d through view_mut(a..b) leaves in the slot
ScratchPadData_write(slot, a, b, d) ==
    [slot EXCEPT !.data = [i \in 1..Len(slot.data) |->
                              IF i > a * slot.count /\ i <= b * slot.count
                              THEN d[i - a * slot.count] ELSE slot.data[i]]]

\* ------------------------------------------------------------- ScratchPad
\* shapes are sequences of <<name, per-sample count>>
new_with_size(inputs, outputs, capacity) ==
    [inputs    |-> [i \in DOMAIN inputs |->
                       ScratchPadData_new(inputs[i][1], inputs[i][2], capacity)],
     outputs   |-> [i \in DOMAIN outputs |->
                       ScratchPadData_new(outputs[i][1], outputs[i][2], capacity)],
     ids       |-> <<>>,
     batch_size |-> 0,
     capacity  |-> capacity]

new_for_shapes(inputs, outputs) == new_with_size(inputs, outputs, DEFAULT_CAPACITY)

ScratchPad_next(pad, id) ==
    LET bs    == pad.batch_size + 1
        grown == bs > pad.capacity
        cap   == IF grown THEN pad.capacity * 2 ELSE pad.capacity
    IN  [pad EXCEPT !.batch_size = bs,
                    !.ids = Append(pad.ids, id),
                    !.capacity = cap,
                    !.inputs = IF grown
                               THEN [s \in DOMAIN pad.inputs |->
                                        ScratchPadData_reserve(pad.inputs[s], cap)]
                               ELSE pad.inputs]

\* copy_from_slice into the last row; panics when the row is outside the
\* slot or when the lengths differ
ScratchPad_push(pad, slot, data) ==
    LET s == pad.inputs[slot]
        a == pad.batch_size - 1
        b == pad.batch_size
    IN  IF pad.batch_size >= 1 /\ ViewInBounds(s, a, b) /\ Len(data) = s.count
        THEN [status |-> "ok",
              pad |-> [pad EXCEPT !.inputs[slot] = ScratchPadData_write(s, a, b, data)]]
        ELSE [status |-> "panic", pad |-> pad]

chunk(pad, offset, size) ==
    LET sz == Min(size, pad.batch_size)
    IN  [pad   |-> [pad EXCEPT !.batch_size = pad.batch_size - sz],
         begin |-> offset,
         end   |-> offset + sz]

Batcher_is_empty(pad) == pad.batch_size = 0

Batcher_len(pad) == pad.batch_size

\* ---------------------------------------------------------------- inferers
\* An inferer is a record [kind, sizes, k, inputs, outputs]: kind names the
\* strategy, sizes is the configured size list of a FixedBatchInferer, k the
\* constant a test inferer answers, inputs/outputs are the shapes.

RECURSIVE InsertDesc(_, _)
InsertDesc(x, s) ==
    IF s = <<>> THEN <<x>>
    ELSE IF x >= s[1] THEN <<x>> \o s
    ELSE <<s[1]>> \o InsertDesc(x, Tail(s))

RECURSIVE SortDesc(_)
SortDesc(s) == IF s = <<>> THEN <<>> ELSE InsertDesc(s[1], SortDesc(Tail(s)))

fixup_sizes(sizes) ==
    SortDesc(IF 1 \in Range(sizes) THEN sizes ELSE Append(sizes, 1))

\* first element of the descending list that is <= max_count, 0 when none
RECURSIVE FindFirstLeq(_, _)
FindFirstLeq(s, max_count) ==
    IF s = <<>> THEN 0
    ELSE IF s[1] <= max_count THEN s[1]
    ELSE FindFirstLeq(Tail(s), max_count)

\* variant that hands out everything queued, whatever the configured sizes
FixedBatchInferer_select_batch_size_all(inf, max_count) == max_count

FixedBatchInferer_select_batch_size(inf, max_count) ==
    FindFirstLeq(fixup_sizes(inf.sizes), max_count)

BasicInferer_select_batch_size(inf, max_count) == 1

DynamicInferer_select_batch_size(inf, max_count) == max_count

MemoizingDynamicInferer_select_batch_size(inf, max_count) == max_count

TestInferer_select_batch_size(inf, max_count) == inf.k

\* the inferer of the runtime's tests takes the whole batch (its assertion
\* that the batch holds one element is left out)
DummyInferer_select_batch_size(inf, count) == count

RECURSIVE select_batch_size(_, _)
select_batch_size(inf, max_count) ==
    CASE inf.kind \in {"recurrent", "epsilon"} -> select_batch_size(inf.inner, max_count)
      [] inf.kind = "stateful"  -> select_batch_size(inf.inferer, max_count)
      [] inf.kind = "basic"     -> BasicInferer_select_batch_size(inf, max_count)
      [] inf.kind = "fixed"     -> FixedBatchInferer_select_batch_size(inf, max_count)
      [] inf.kind = "dynamic"   -> DynamicInferer_select_batch_size(inf, max_count)
      [] inf.kind = "memoizing" -> MemoizingDynamicInferer_select_batch_size(inf, max_count)
      [] inf.kind = "dummy"     -> DummyInferer_select_batch_size(inf, max_count)
      [] OTHER                  -> TestInferer_select_batch_size(inf, max_count)

\* a FixedBatchInferer only has plans for its configured sizes
HasPlan(inf, n) == inf.kind = "fixed" => n \in Range(fixup_sizes(inf.sizes))

\* the value an inferer computes for element e of an output row, from the
\* input row of the same batch position
OutValue(insum, e) == 10 * insum + e

\* sum over all input slots of the input row at batch position p
InputRowSum(pad, p) ==
    SumSeq([s \in DOMAIN pad.inputs |->
               SumSeq(ScratchPadData_view(pad.inputs[s], p, p + 1))])

\* infer_raw on the view [begin, end): reads every input slot of the view,
\* writes every output slot of the view.  fail: the engine returns Err.
infer_raw(inf, pad, begin, end, fail) ==
    IF ~HasPlan(inf, end - begin)
    THEN [status |-> "err", pad |-> pad]
    ELSE IF \E s \in DOMAIN pad.inputs : ~ViewInBounds(pad.inputs[s], begin, end)
    THEN [status |-> "panic", pad |-> pad]
    ELSE IF fail
    THEN [status |-> "err", pad |-> pad]
    ELSE IF \E o \in DOMAIN pad.outputs : ~ViewInBounds(pad.outputs[o], begin, end)
    THEN [status |-> "panic", pad |-> pad]
    ELSE [status |-> "ok",
          pad |-> [pad EXCEPT !.outputs = [o \in DOMAIN pad.outputs |->
                     LET c == pad.outputs[o].count
                     IN  ScratchPadData_write(pad.outputs[o], begin, end,
                           [i \in 1..((end - begin) * c) |->
                              OutValue(InputRowSum(pad, begin + ((i - 1) \div c)),
                                       ((i - 1) % c) + 1)])]]]

\* ------------------------------------------------------- RecurrentTracker
\* A tracker is a record [kind |-> "recurrent", inner, keys, per_agent_states,
\* agent_state_size, inputs, outputs]: keys is the list of RecurrentPairs
\* [inslot, outslot, numels, offset] (slots counted from 1),
\* per_agent_states maps the ids between begin_agent and end_agent to their
\* buffer.

\* the ids a view [begin, end) hands out next to a slot's data
ViewIds(pad, begin, end) == SubSeq(pad.ids, begin + 1, end)

\* info is a list of [inkey, outkey] that name raw inputs and outputs of the
\* inferer (wrap only passes such names)
RecurrentTracker_new(inferer, info) ==
    LET inputs  == inferer.inputs
        outputs == inferer.outputs
        inslot(i)  == CHOOSE s \in DOMAIN inputs :
                         /\ inputs[s][1] = info[i].inkey
                         /\ \A t \in 1..(s - 1) : inputs[t][1] # info[i].inkey
        outslot(i) == CHOOSE s \in DOMAIN outputs :
                         /\ outputs[s][1] = info[i].outkey
                         /\ \A t \in 1..(s - 1) : outputs[t][1] # info[i].outkey
        numels(i)  == inputs[inslot(i)][2]
    IN  [kind   |-> "recurrent",
         inner  |-> inferer,
         keys   |-> [i \in DOMAIN info |->
                       [inslot |-> inslot(i), outslot |-> outslot(i),
                        numels |-> numels(i),
                        offset |-> SumSeq([j \in 1..(i - 1) |-> numels(j)])]],
         agent_state_size |-> SumSeq([j \in DOMAIN info |-> numels(j)]),
         inputs  |-> SelectSeq(inputs,
                       LAMBDA sh : \A i \in DOMAIN info : info[i].inkey # sh[1]),
         outputs |-> SelectSeq(outputs,
                       LAMBDA sh : \A i \in DOMAIN info : info[i].outkey # sh[1]),
         per_agent_states |-> <<>>]

\* the keys that are an input and an output of the same shape, in the order
\* of the inputs (at least one exists for the inferers wrapped here)
RecurrentTracker_wrap(inferer) ==
    RecurrentTracker_new(inferer,
        [i \in 1..Len(SelectSeq(inferer.inputs,
                         LAMBDA sh : \E o \in DOMAIN inferer.outputs :
                                        inferer.outputs[o] = sh)) |->
            [inkey  |-> SelectSeq(inferer.inputs,
                           LAMBDA sh : \E o \in DOMAIN inferer.outputs :
                                          inferer.outputs[o] = sh)[i][1],
             outkey |-> SelectSeq(inferer.inputs,
                           LAMBDA sh : \E o \in DOMAIN inferer.outputs :
                                          inferer.outputs[o] = sh)[i][1]]])

\* the first loop of infer_raw: every recurrent input row of the view gets
\* the stored state of the row's id, or zeros when the id has none
RecurrentTracker_load(inf, pad, begin, end) ==
    [pad EXCEPT !.inputs = [s \in DOMAIN pad.inputs |->
        IF \E k \in DOMAIN inf.keys : inf.keys[k].inslot = s
        THEN LET pair == inf.keys[CHOOSE k \in DOMAIN inf.keys :
                                     /\ inf.keys[k].inslot = s
                                     /\ \A l \in DOMAIN inf.keys :
                                           inf.keys[l].inslot = s => l <= k]
                 ids  == ViewIds(pad, begin, end)
             IN  ScratchPadData_write(pad.inputs[s], begin, end,
                     [i \in 1..((end - begin) * pair.numels) |->
                        LET id == ids[((i - 1) \div pair.numels) + 1]
                            e  == ((i - 1) % pair.numels) + 1
                        IN  IF id \in DOMAIN inf.per_agent_states
                            THEN inf.per_agent_states[id][pair.offset + e]
                            ELSE 0])
        ELSE pad.inputs[s]]]

\* the second loop of infer_raw: the stored state of every id of the view
\* that has one takes the id's recurrent output rows (the last row of an id
\* that is in the view twice)
RecurrentTracker_store(inf, pad, begin, end) ==
    LET ids == ViewIds(pad, begin, end)
        last(id) == CHOOSE p \in DOMAIN ids :
                       ids[p] = id /\ \A q \in DOMAIN ids : ids[q] = id => q <= p
    IN  [id \in DOMAIN inf.per_agent_states |->
            IF id \notin Range(ids) THEN inf.per_agent_states[id]
            ELSE [x \in 1..inf.agent_state_size |->
                    LET pair == inf.keys[CHOOSE k \in DOMAIN inf.keys :
                                    /\ inf.keys[k].offset < x
                                    /\ x <= inf.keys[k].offset + inf.keys[k].numels]
                    IN  ScratchPadData_view(pad.outputs[pair.outslot],
                                            begin + last(id) - 1,
                                            begin + last(id))[x - pair.offset]]]

\* the answer r of an infer_raw that leaves the inferer inf as it is
WithInferer(r, inf) == [status |-> r.status, pad |-> r.pad, inf |-> inf]

\* the `?` on the answer r of the inner infer_raw, then the second loop
RecurrentTracker_infer_raw_store(inf, r, begin, end) ==
    IF r.status # "ok"
    THEN WithInferer(r, inf)
    ELSE [status |-> "ok", pad |-> r.pad,
          inf |-> [inf EXCEPT !.per_agent_states =
                                  RecurrentTracker_store(inf, r.pad, begin, end)]]

RecurrentTracker_infer_raw(inf, pad, begin, end, fail) ==
    IF \E k \in DOMAIN inf.keys : ~ViewInBounds(pad.inputs[inf.keys[k].inslot], begin, end)
    THEN [status |-> "panic", pad |-> pad, inf |-> inf]
    ELSE RecurrentTracker_infer_raw_store(inf,
             infer_raw(inf.inner, RecurrentTracker_load(inf, pad, begin, end),
                       begin, end, fail),
             begin, end)

RecurrentTracker_begin_agent(inf, id) ==
    [inf EXCEPT !.per_agent_states =
        [a \in DOMAIN inf.per_agent_states \cup {id} |->
            IF a = id THEN [x \in 1..inf.agent_state_size |-> 0]
            ELSE inf.per_agent_states[a]]]

RecurrentTracker_end_agent(inf, id) ==
    [inf EXCEPT !.per_agent_states =
        [a \in DOMAIN inf.per_agent_states \ {id} |-> inf.per_agent_states[a]]]

\* -------------------------------------------------------- EpsilonInjector
\* An injector is a record [kind |-> "epsilon", inner, index, count,
\* generator, inputs, outputs]: index is the position (from 1) of the noise
\* key among the inputs of the inner inferer, count its per-sample count,
\* generator the value a ConstantGenerator writes.

ConstantGenerator_for_value(value) == [value |-> value]

ConstantGenerator_zeros == ConstantGenerator_for_value(1)

ConstantGenerator_ones == ConstantGenerator_for_value(1)

\* ConstantGenerator::generate: every element of out becomes the value
ConstantGenerator_generate(generator, count, out) ==
    [i \in DOMAIN out |-> generator.value]

EpsilonInjector_with_generator(inferer, generator, key) ==
    IF \A i \in DOMAIN inferer.inputs : inferer.inputs[i][1] # key
    THEN [kind |-> "error"]
    ELSE LET index == CHOOSE i \in DOMAIN inferer.inputs :
                         /\ inferer.inputs[i][1] = key
                         /\ \A j \in 1..(i - 1) : inferer.inputs[j][1] # key
         IN  [kind      |-> "epsilon",
              inner     |-> inferer,
              index     |-> index,
              count     |-> inferer.inputs[index][2],
              generator |-> generator,
              inputs    |-> SelectSeq(inferer.inputs, LAMBDA sh : sh[1] # key),
              outputs   |-> inferer.outputs]

\* batch.input_slot_mut(index) panics when the pad has no such slot or
\* the slot is too short for the view
EpsilonInjector_infer_raw(inf, pad, begin, end, fail) ==
    IF inf.index \notin DOMAIN pad.inputs
       \/ ~ViewInBounds(pad.inputs[inf.index], begin, end)
    THEN [status |-> "panic", pad |-> pad, inf |-> inf]
    ELSE WithInferer(
             infer_raw(inf.inner,
                 [pad EXCEPT !.inputs[inf.index] =
                     ScratchPadData_write(pad.inputs[inf.index], begin, end,
                         ConstantGenerator_generate(inf.generator,
                             inf.count * (end - begin),
                             ScratchPadData_view(pad.inputs[inf.index], begin, end)))],
                 begin, end, fail),
             inf)

\* ------------------------------------------------ MemoizingDynamicInferer
\* With its plan cache the inferer is a record [kind |-> "memoizing", sizes,
\* k, inputs, outputs, model_cache, bad_sizes, compiled]: model_cache is the
\* set of batch sizes that have a plan, bad_sizes the sizes the model cannot
\* be concretized for, compiled the log of the sizes a plan was built for.

\* variant that builds a plan on every call
MemoizingDynamicInferer_get_concrete_model_rebuilding(inf, size) ==
    IF size \in inf.bad_sizes
    THEN [status |-> "err", inf |-> inf]
    ELSE [status |-> "ok",
          inf |-> [inf EXCEPT !.model_cache = inf.model_cache \cup {size},
                              !.compiled = Append(inf.compiled, size)]]

\* &mut self: no two calls overlap
MemoizingDynamicInferer_get_concrete_model(inf, size) ==
    IF size \in inf.model_cache
    THEN [status |-> "ok", inf |-> inf]
    ELSE IF size \in inf.bad_sizes
    THEN [status |-> "err", inf |-> inf]
    ELSE [status |-> "ok",
          inf |-> [inf EXCEPT !.model_cache = inf.model_cache \cup {size},
                              !.compiled = Append(inf.compiled, size)]]

\* the loop over preloaded_sizes (none of them a size that fails)
RECURSIVE MemoizingDynamicInferer_from_model(_, _)
MemoizingDynamicInferer_from_model(this, preloaded_sizes) ==
    IF preloaded_sizes = <<>> THEN this
    ELSE MemoizingDynamicInferer_from_model(
             MemoizingDynamicInferer_get_concrete_model(this, preloaded_sizes[1]).inf,
             Tail(preloaded_sizes))

\* get_concrete_model(count)?.run(inputs)?: m is the answer of
\* get_concrete_model, fail the Err of run
MemoizingDynamicInferer_infer_run(m, pad, begin, end, fail) ==
    IF m.status # "ok"
    THEN [status |-> "err", pad |-> pad, inf |-> m.inf]
    ELSE WithInferer(infer_raw(m.inf, pad, begin, end, fail), m.inf)

MemoizingDynamicInferer_infer_batched(inf, pad, begin, end, fail) ==
    MemoizingDynamicInferer_infer_run(
        MemoizingDynamicInferer_get_concrete_model(inf, end - begin),
        pad, begin, end, fail)

\* ------------------------------------------ StatefulInferer and wrappers
\* A wrapper stack is BaseCase or a record [kind |-> "epsilon", inner, state]
\* around an inner stack; a StatefulInferer (Model in model.rs) is a record
\* [kind |-> "stateful", wrapper_stack, inferer, invoked]: invoked counts the
\* infer_raw calls made on the wrapped inferer so far.
BaseCase == [kind |-> "base"]

EpsilonInjectorWrapper_with_generator(inner, inferer, generator, key) ==
    IF \A i \in DOMAIN inferer.inputs : inferer.inputs[i][1] # key
    THEN [kind |-> "error"]
    ELSE LET index == CHOOSE i \in DOMAIN inferer.inputs :
                         /\ inferer.inputs[i][1] = key
                         /\ \A j \in 1..(i - 1) : inferer.inputs[j][1] # key
         IN  [kind  |-> "epsilon",
              inner |-> inner,
              state |-> [index     |-> index,
                         count     |-> inferer.inputs[index][2],
                         generator |-> generator,
                         inputs    |-> SelectSeq(inferer.inputs, LAMBDA sh : sh[1] # key)]]

\* invoke answers [status, pad, calls]: calls is the number of infer_raw
\* calls it made on the inferer
RECURSIVE ModelWrapper_invoke(_, _, _, _, _, _)

\* r is the answer of an invoke that follows calls earlier infer_raw calls
AfterCalls(r, calls) == [r EXCEPT !.calls = r.calls + calls]

BaseCase_invoke(r) == [status |-> r.status, pad |-> r.pad, calls |-> 1]

\* EpsilonInjectorWrapper::invoke from its `?` on: r is the answer of the
\* first self.inner.invoke
EpsilonInjectorWrapper_invoke_generate(w, inferer, r, begin, end, fail) ==
    IF r.status # "ok" THEN r
    ELSE IF w.state.index \notin DOMAIN r.pad.inputs
            \/ ~ViewInBounds(r.pad.inputs[w.state.index], begin, end)
    THEN [r EXCEPT !.status = "panic"]
    ELSE AfterCalls(
             ModelWrapper_invoke(w.inner, inferer,
                 [r.pad EXCEPT !.inputs[w.state.index] =
                     ScratchPadData_write(r.pad.inputs[w.state.index], begin, end,
                         ConstantGenerator_generate(w.state.generator,
                             w.state.count * (end - begin),
                             ScratchPadData_view(r.pad.inputs[w.state.index],
                                                 begin, end)))],
                 begin, end, fail),
             r.calls)

ModelWrapper_invoke(w, inferer, pad, begin, end, fail) ==
    IF w.kind = "base"
    THEN BaseCase_invoke(infer_raw(inferer, pad, begin, end, fail))
    ELSE EpsilonInjectorWrapper_invoke_generate(w, inferer,
             ModelWrapper_invoke(w.inner, inferer, pad, begin, end, fail),
             begin, end, fail)

ModelWrapper_input_shapes(w, inferer) ==
    IF w.kind = "base" THEN inferer.inputs ELSE w.state.inputs

RECURSIVE ModelWrapper_output_shapes(_, _)
ModelWrapper_output_shapes(w, inferer) ==
    IF w.kind = "base" THEN inferer.outputs
    ELSE ModelWrapper_output_shapes(w.inner, inferer)

\* the shapes of a plain inferer before any wrapper
raw_input_shapes(inferer) == inferer.inputs
raw_output_shapes(inferer) == inferer.outputs

StatefulInferer_new(wrapper_stack, inferer) ==
    [kind |-> "stateful", wrapper_stack |-> wrapper_stack, inferer |-> inferer,
     inputs  |-> ModelWrapper_input_shapes(wrapper_stack, inferer),
     outputs |-> ModelWrapper_output_shapes(wrapper_stack, inferer),
     invoked |-> 0]

\* old.iter().zip(new): the pairs up to the length of the shorter list
ZipMismatch(old, new) ==
    {i \in 1..Min(Len(old), Len(new)) : old[i] # new[i]}

check_compatible_shapes(old, new) ==
    IF ZipMismatch(raw_input_shapes(old), raw_input_shapes(new)) # {}
    THEN "err"
    ELSE IF ZipMismatch(raw_output_shapes(old), raw_output_shapes(new)) # {}
    THEN "err"
    ELSE "ok"

\* the StatefulInferer with new_inferer in the place of its inferer
StatefulInferer_install(this, new_inferer) ==
    [this EXCEPT
        !.inferer = new_inferer,
        !.inputs  = ModelWrapper_input_shapes(this.wrapper_stack, new_inferer),
        !.outputs = ModelWrapper_output_shapes(this.wrapper_stack, new_inferer)]

StatefulInferer_with_new_inferer(this, new_inferer) ==
    IF check_compatible_shapes(this.inferer, new_inferer) # "ok"
    THEN [status |-> "err", this |-> this]
    ELSE [status |-> "ok", this |-> StatefulInferer_install(this, new_inferer)]

StatefulInferer_replace_inferer(this, new_inferer) ==
    IF check_compatible_shapes(this.inferer, new_inferer) # "ok"
    THEN [status |-> "err", this |-> this]
    ELSE [status |-> "ok", this |-> StatefulInferer_install(this, new_inferer)]

\* r is the answer of self.wrapper_stack.invoke(&self.inferer, batch)
StatefulInferer_infer_raw_return(inf, r) ==
    [status |-> r.status, pad |-> r.pad,
     inf |-> [inf EXCEPT !.invoked = inf.invoked + r.calls]]

StatefulInferer_infer_raw(inf, pad, begin, end, fail) ==
    StatefulInferer_infer_raw_return(inf,
        ModelWrapper_invoke(inf.wrapper_stack, inf.inferer, pad, begin, end, fail))

\* infer_raw of whatever inferer a Batcher is bound to: the answer carries
\* the inferer, whose own state a wrapper changes
Inferer_infer_raw(inf, pad, begin, end, fail) ==
    CASE inf.kind = "recurrent" -> RecurrentTracker_infer_raw(inf, pad, begin, end, fail)
      [] inf.kind = "epsilon"   -> EpsilonInjector_infer_raw(inf, pad, begin, end, fail)
      [] inf.kind = "stateful"  -> StatefulInferer_infer_raw(inf, pad, begin, end, fail)
      [] inf.kind = "memoizing" /\ "model_cache" \in DOMAIN inf
                                -> MemoizingDynamicInferer_infer_batched(inf, pad, begin, end, fail)
      [] OTHER -> WithInferer(infer_raw(inf, pad, begin, end, fail), inf)

\* ---------------------------------------------------------------- Batcher
Batcher_new(inf) == new_for_shapes(inf.inputs, inf.outputs)

Batcher_new_sized(inf, size) == new_with_size(inf.inputs, inf.outputs, size)

\* position of the input slot called name, 0 for None
input_slot(pad, name) ==
    IF \E i \in DOMAIN pad.inputs : pad.inputs[i].name = name
    THEN CHOOSE i \in DOMAIN pad.inputs :
            /\ pad.inputs[i].name = name
            /\ \A j \in DOMAIN pad.inputs : pad.inputs[j].name = name => i <= j
    ELSE 0

\* the loop over state.data; kv is the map in its iteration order
RECURSIVE PushKeys(_, _)
PushKeys(pad, kv) ==
    IF kv = <<>> THEN [status |-> "ok", pad |-> pad]
    ELSE LET slot == input_slot(pad, kv[1][1])
         IN  IF slot = 0 THEN [status |-> "err", pad |-> pad]
             ELSE LET r == ScratchPad_push(pad, slot, kv[1][2])
                  IN  IF r.status = "panic" THEN r ELSE PushKeys(r.pad, Tail(kv))

Batcher_push(pad, id, state) == PushKeys(ScratchPad_next(pad, id), state)

\* items is a sequence of <<id, state>>
RECURSIVE Batcher_extend(_, _)
Batcher_extend(pad, items) ==
    IF items = <<>> THEN [status |-> "ok", pad |-> pad]
    ELSE LET r == Batcher_push(pad, items[1][1], items[1][2])
         IN  IF r.status # "ok" THEN r ELSE Batcher_extend(r.pad, Tail(items))

\* the while loop of execute; calls logs the views handed to infer_raw.
\* failAt is the number of the infer_raw call that returns Err (0: none).
RECURSIVE ExecLoop(_, _, _, _, _)

\* the `?` on the answer r of infer_raw for the view, then total_offset
\* moves on by the preferred batch size
ExecLoop_advance(r, view, inf, next_offset, calls, failAt) ==
    LET call == [begin |-> view.begin, end |-> view.end, status |-> r.status]
    IN  IF r.status # "ok"
        THEN [status |-> r.status, pad |-> r.pad, inf |-> r.inf,
              calls |-> Append(calls, call)]
        ELSE ExecLoop(r.pad, r.inf, next_offset, Append(calls, call), failAt)

\* inferer.infer_raw(view) on the chunk just taken
ExecLoop_infer(view, inf, next_offset, calls, failAt) ==
    ExecLoop_advance(Inferer_infer_raw(inf, view.pad, view.begin, view.end,
                                       failAt = Len(calls) + 1),
                     view, inf, next_offset, calls, failAt)

\* scratch.chunk(total_offset, preferred_batch_size)
ExecLoop_chunk(pad, inf, total_offset, calls, failAt, preferred_batch_size) ==
    ExecLoop_infer(chunk(pad, total_offset, preferred_batch_size), inf,
                   total_offset + preferred_batch_size, calls, failAt)

ExecLoop(pad, inf, total_offset, calls, failAt) ==
    IF ~(pad.batch_size > 0)
    THEN [status |-> "ok", pad |-> pad, inf |-> inf, calls |-> calls]
    ELSE ExecLoop_chunk(pad, inf, total_offset, calls, failAt,
                        select_batch_size(inf, pad.batch_size))

\* the Response of batch position idx (0-based): one row per output slot
ResponseAt(pad, idx) ==
    [o \in DOMAIN pad.outputs |-> ScratchPadData_view(pad.outputs[o], idx, idx + 1)]

\* HashMap::from_iter(ids.zip(outputs)): a later duplicate key wins
ZipToMap(ids, outputs) ==
    [id \in Range(ids) |->
        outputs[CHOOSE i \in DOMAIN ids :
                   ids[i] = id /\ \A j \in DOMAIN ids : ids[j] = id => j <= i]]

\* what execute does once its while loop has ended as loop says: the
\* outputs are read row by row and zipped with the ids
Batcher_execute_collect(loop) ==
    LET p    == loop.pad
        n    == Len(p.ids)
    IN  IF loop.status # "ok"
        THEN [status |-> loop.status, pad |-> p, inf |-> loop.inf,
              calls |-> loop.calls, result |-> <<>>]
        ELSE IF \E o \in DOMAIN p.outputs, idx \in 0..(n - 1) :
                   ~ViewInBounds(p.outputs[o], idx, idx + 1)
        THEN [status |-> "panic", pad |-> p, inf |-> loop.inf,
              calls |-> loop.calls, result |-> <<>>]
        ELSE [status |-> "ok",
              pad    |-> [p EXCEPT !.ids = <<>>],
              inf    |-> loop.inf,
              calls  |-> loop.calls,
              result |-> ZipToMap(p.ids, [i \in 1..n |-> ResponseAt(p, i - 1)])]

Batcher_execute(pad, inf, failAt) ==
    Batcher_execute_collect(ExecLoop(pad, inf, 0, <<>>, failAt))

\* ------------------------------------------------------------ TimingBucket
WelfordState_update(st, value) ==
    LET count == st.count + 1
        delta == value - st.mean
    IN  [st EXCEPT !.count = count, !.mean = st.mean + (delta \div count)]

TimingBucket_new(size, elapsed) ==
    WelfordState_update([size |-> size, count |-> 0, mean |-> 0], elapsed)

TimingBucket_add(bucket, elapsed) == WelfordState_update(bucket, elapsed)

TimingBucket_mean(bucket) == bucket.mean

\* a variant that compares the mean as it is, whatever the batch size
scaled_mean_le_unscaled(bucket, to_size, duration) == bucket.mean <= duration

\* scaled_mean(to_size) <= duration, i.e. mean / (size / to_size) <= duration
scaled_mean_le(bucket, to_size, duration) ==
    bucket.mean * to_size <= duration * bucket.size

\* ------------------------------------------------------------- ModelState
\* the inferers of the runtime have no input and no output slot and take
\* the whole batch in one infer_raw call that lasts a fixed time per brain
RuntimeInferer ==
    [kind |-> "dummy", sizes |-> <<>>, k |-> 0, inputs |-> <<>>, outputs |-> <<>>]

sleep_duration(id) == <<20, 40, 60, 40>>[(id % 4) + 1]

EmptyState == <<>>

\* a state whose only key matches no input of the inferer
BogusState == << <<"bogus", <<0>> >> >>

ModelState_new(id) ==
    [id |-> id, batcher |-> Batcher_new(RuntimeInferer), timings |-> <<>>]

\* r is what Batcher::push answered
ModelState_push_result(m, r) ==
    [status |-> IF r.status = "ok" THEN "ok" ELSE "internal",
     model  |-> [m EXCEPT !.batcher = r.pad]]

ModelState_push(m, agent_id, state) ==
    ModelState_push_result(m, Batcher_push(m.batcher, agent_id, state))

needs_to_execute(m) == ~Batcher_is_empty(m.batcher)

\* number of leading buckets with size <= the given size
RECURSIVE partition_point(_, _)
partition_point(timings, size) ==
    IF timings = <<>> \/ ~(timings[1].size <= size) THEN 0
    ELSE 1 + partition_point(Tail(timings), size)

can_run_in_time(m, duration) ==
    IF m.timings = <<>> THEN TRUE
    ELSE LET size      == Batcher_len(m.batcher)
             timings   == m.timings
             partition == partition_point(timings, size)
         IN  IF partition = Len(timings)
             THEN scaled_mean_le(timings[Len(timings)], size, duration)
             ELSE IF timings[partition + 1].size = size
             THEN TimingBucket_mean(timings[partition + 1]) <= duration
             ELSE IF partition = 0
             THEN scaled_mean_le(timings[1], size, duration)
             ELSE scaled_mean_le(timings[partition], size, duration)

\* stable insertion of a bucket by size (push followed by sort_by_key)
RECURSIVE InsertBySize(_, _)
InsertBySize(timings, bucket) ==
    IF timings = <<>> THEN <<bucket>>
    ELSE IF bucket.size < timings[1].size THEN <<bucket>> \o timings
    ELSE <<timings[1]>> \o InsertBySize(Tail(timings), bucket)

\* a variant that opens a bucket for every sample
record_timing_pushing(timings, batch_size, elapsed) ==
    InsertBySize(timings, TimingBucket_new(batch_size, elapsed))

\* the match on timings.iter_mut().find(|b| b.size == batch_size)
record_timing(timings, batch_size, elapsed) ==
    IF \E i \in DOMAIN timings : timings[i].size = batch_size
    THEN LET i == CHOOSE i \in DOMAIN timings :
                     /\ timings[i].size = batch_size
                     /\ \A j \in DOMAIN timings : timings[j].size = batch_size => i <= j
         IN  [timings EXCEPT ![i] = TimingBucket_add(timings[i], elapsed)]
    ELSE InsertBySize(timings, TimingBucket_new(batch_size, elapsed))

\* the `?` on the answer r of Batcher::execute, then the timing of the
\* batch is recorded
ModelState_run_record(m, batch_size, r) ==
    IF r.status # "ok"
    THEN [status |-> "internal",
          model  |-> [m EXCEPT !.batcher = r.pad],
          result |-> <<>>]
    ELSE [status |-> "ok",
          model  |-> [m EXCEPT !.batcher = r.pad,
                               !.timings = record_timing(m.timings, batch_size,
                                                         sleep_duration(m.id))],
          result |-> r.result]

\* fail: the inferer's infer_raw returns Err
ModelState_run(m, fail) ==
    IF Batcher_is_empty(m.batcher)
    THEN [status |-> "ok", model |-> m, result |-> <<>>]
    ELSE ModelState_run_record(m, Batcher_len(m.batcher),
             Batcher_execute(m.batcher, RuntimeInferer, IF fail THEN 1 ELSE 0))

\* InfererExt::infer_single: the state goes through a batcher of its own
InfererExt_infer_single_execute(p, fail) ==
    IF p.status # "ok" THEN "internal"
    ELSE Batcher_execute(p.pad, RuntimeInferer, IF fail THEN 1 ELSE 0).status

InfererExt_infer_single(state, fail) ==
    InfererExt_infer_single_execute(
        Batcher_push(Batcher_new(RuntimeInferer), 0, state), fail)

\* the answer r of batcher.execute, and the entry of id 0 taken out of it
ModelState_infer_single_remove(m, r) ==
    IF r.status # "ok" \/ 0 \notin DOMAIN r.result
    THEN [status |-> "internal", model |-> [m EXCEPT !.batcher = r.pad]]
    ELSE [status |-> "ok",
          model  |-> [m EXCEPT !.batcher = r.pad,
                               !.timings = record_timing(m.timings, 1,
                                                         sleep_duration(m.id))]]

\* the empty batcher has answered p to push(0, state)
ModelState_infer_single_execute(m, p, fail) ==
    IF p.status # "ok"
    THEN [status |-> "internal", model |-> [m EXCEPT !.batcher = p.pad]]
    ELSE ModelState_infer_single_remove(m,
             Batcher_execute(p.pad, RuntimeInferer, IF fail THEN 1 ELSE 0))

ModelState_infer_single(m, state, fail) ==
    IF Batcher_is_empty(m.batcher)
    THEN ModelState_infer_single_execute(m, Batcher_push(m.batcher, 0, state), fail)
    ELSE IF InfererExt_infer_single(state, fail) # "ok"
         THEN [status |-> "internal", model |-> m]
         ELSE [status |-> "ok",
               model  |-> [m EXCEPT !.timings = record_timing(m.timings, 1,
                                                              sleep_duration(m.id))]]

\* ---------------------------------------------------------------- Runtime
\* A runtime is a record [models, queue, ticket_generation, brain_generation];
\* queue is the set of tickets [seq, brain] held by the BinaryHeap.

Runtime_new ==
    [models |-> <<>>, queue |-> {}, ticket_generation |-> 0, brain_generation |-> 0]

Ticket(seq, brain) == [seq |-> seq, brain |-> brain]

\* a variant whose Ord is not reversed: the highest sequence comes first
PopOrders_unreversed(queue) ==
    {o \in [1..Cardinality(queue) -> queue] :
        \A i, j \in 1..Cardinality(queue) :
            i < j => (o[i] # o[j] /\ o[i].seq >= o[j].seq)}

\* the orders in which BinaryHeap::pop can hand out the tickets: Ord compares
\* the sequence numbers only, reversed, so the lowest sequence comes first
PopOrders(queue) ==
    {o \in [1..Cardinality(queue) -> queue] :
        \A i, j \in 1..Cardinality(queue) :
            i < j => (o[i] # o[j] /\ o[i].seq <= o[j].seq)}

\* models.iter().find(|m| m.id == brain) as an index, 0 for None
FindModel(models, brain) ==
    IF \E i \in DOMAIN models : models[i].id = brain
    THEN CHOOSE i \in DOMAIN models :
            /\ models[i].id = brain
            /\ \A j \in DOMAIN models : models[j].id = brain => i <= j
    ELSE 0

RemoveAt(s, i) == SubSeq(s, 1, i - 1) \o SubSeq(s, i + 1, Len(s))

\* BrainId and brain_generation are u16
U16_MAX == 65535

\* `self.brain_generation += 1` without overflow checks wraps around
Runtime_add_inferer(rt) ==
    LET id == rt.brain_generation
    IN  [rt EXCEPT !.brain_generation = (id + 1) % (U16_MAX + 1),
                   !.models = Append(rt.models, ModelState_new(id)),
                   !.queue = rt.queue \cup {Ticket(rt.ticket_generation, id)},
                   !.ticket_generation = rt.ticket_generation + 1]

\* add_inferer under either build: with overflow checks (the dev profile)
\* the addition panics at U16_MAX, before anything is changed
Runtime_add_inferer_checked(rt, overflow_checks) ==
    IF overflow_checks /\ rt.brain_generation = U16_MAX
    THEN [status |-> "panic", id |-> -1, rt |-> rt]
    ELSE [status |-> "ok", id |-> rt.brain_generation, rt |-> Runtime_add_inferer(rt)]

\* model i has answered r: its status is handed on, the model is as the
\* call left it
StoreModel(rt, i, r) ==
    [status |-> r.status, rt |-> [rt EXCEPT !.models[i] = r.model]]

Runtime_push(rt, brain, agent, state) ==
    LET i == FindModel(rt.models, brain)
    IN  IF i = 0 THEN [status |-> "unknown_brain", unknown |-> brain, rt |-> rt]
        ELSE StoreModel(rt, i, ModelState_push(rt.models[i], agent, state))

Runtime_infer_single(rt, brain_id, state, fail) ==
    LET i == FindModel(rt.models, brain_id)
    IN  IF i = 0 THEN [status |-> "unknown_brain", unknown |-> brain_id, rt |-> rt]
        ELSE StoreModel(rt, i, ModelState_infer_single(rt.models[i], state, fail))

\* the for loop of run_non_threaded from model i on; fails is the set of
\* brains whose execution returns Err
RECURSIVE RunLoop(_, _, _, _, _)

\* a variant that hands back the results gathered before the failure
RunLoop_insert_partial(models, i, result, executed, fails, r) ==
    LET ms == [models EXCEPT ![i] = r.model]
        ex == Append(executed, models[i].id)
    IN  IF r.status # "ok"
        THEN [status |-> r.status, models |-> ms, result |-> result, executed |-> ex]
        ELSE RunLoop(ms, i + 1, result @@ (models[i].id :> r.result), ex, fails)

\* result.insert(model.id, model.run()?) with the answer r of model i
RunLoop_insert(models, i, result, executed, fails, r) ==
    LET ms == [models EXCEPT ![i] = r.model]
        ex == Append(executed, models[i].id)
    IN  IF r.status # "ok"
        THEN [status |-> r.status, models |-> ms, result |-> <<>>, executed |-> ex]
        ELSE RunLoop(ms, i + 1, result @@ (models[i].id :> r.result), ex, fails)

RunLoop(models, i, result, executed, fails) ==
    IF i > Len(models)
    THEN [status |-> "ok", models |-> models, result |-> result, executed |-> executed]
    ELSE IF ~needs_to_execute(models[i])
    THEN RunLoop(models, i + 1, result, executed, fails)
    ELSE RunLoop_insert(models, i, result, executed, fails,
                        ModelState_run(models[i], models[i].id \in fails))

\* a variant that hands the executed models fresh tickets, as run_for does
Runtime_run_reticketing(rt, fails) ==
    LET r == RunLoop(rt.models, 1, <<>>, <<>>, fails)
    IN  [status |-> r.status,
         rt |-> [rt EXCEPT
                   !.models = r.models,
                   !.queue = {t \in rt.queue : t.brain \notin Range(r.executed)}
                             \cup {[seq |-> rt.ticket_generation + i - 1,
                                    brain |-> r.executed[i]] : i \in DOMAIN r.executed},
                   !.ticket_generation = rt.ticket_generation + Len(r.executed)],
         result |-> r.result, executed |-> r.executed]

\* r is how the loop over the models ended: only the models have changed
Runtime_run_return(rt, r) ==
    [status |-> r.status, rt |-> [rt EXCEPT !.models = r.models],
     result |-> r.result, executed |-> r.executed]

Runtime_run_non_threaded(rt, fails) ==
    Runtime_run_return(rt, RunLoop(rt.models, 1, <<>>, <<>>, fails))

\* the while loop of run_for_non_threaded over the tickets in pop order,
\* from ticket i on.  st carries the locals of the function; visited logs,
\* for every popped ticket, what happened to it.
RECURSIVE RunForLoop(_, _, _, _)

\* the model at idx, whose ticket is order[i], has run and answered r
RunForLoop_ran(st, order, i, fails, idx, r) ==
    LET ticket  == order[i]
        elapsed == sleep_duration(st.models[idx].id)
        st1 == [st EXCEPT
                  !.models[idx] = r.model,
                  !.duration = saturating_sub(st.duration, elapsed),
                  !.any_executed = TRUE,
                  !.visited = Append(st.visited,
                        [ticket |-> ticket, ran |-> TRUE,
                         ok |-> r.status = "ok",
                         before |-> st.duration, elapsed |-> elapsed]),
                  !.popped = i]
    IN  IF r.status # "ok"
        THEN [st1 EXCEPT !.status = r.status]
        ELSE RunForLoop(
               [st1 EXCEPT !.result = st.result @@ (ticket.brain :> r.result),
                           !.executed = Append(st.executed, ticket.brain)],
               order, i + 1, fails)

RunForLoop(st, order, i, fails) ==
    IF i > Len(order) THEN st
    ELSE
      LET ticket == order[i]
          idx    == FindModel(st.models, ticket.brain)
      IN  IF idx = 0
          THEN [st EXCEPT !.status = "unknown_brain", !.popped = i]
          ELSE
            LET model == st.models[idx]
            IN  IF ~needs_to_execute(model)
                   \/ (st.any_executed /\ ~can_run_in_time(model, st.duration))
                THEN RunForLoop(
                       [st EXCEPT !.non_executed = Append(st.non_executed, ticket),
                                  !.visited = Append(st.visited,
                                      [ticket |-> ticket, ran |-> FALSE, ok |-> TRUE,
                                       before |-> st.duration, elapsed |-> 0]),
                                  !.popped = i],
                       order, i + 1, fails)
                ELSE RunForLoop_ran(st, order, i, fails, idx,
                                    ModelState_run(model, ticket.brain \in fails))

\* the fresh tickets pushed for the executed brains
FreshTickets(executed, gen) ==
    {Ticket(gen + i - 1, executed[i]) : i \in DOMAIN executed}

\* the locals of run_for when its loop starts
RunForLocals(rt, duration) ==
    [status |-> "ok", models |-> rt.models, duration |-> duration,
     any_executed |-> FALSE, executed |-> <<>>, non_executed |-> <<>>,
     result |-> <<>>, visited |-> <<>>, popped |-> 0]

\* st is how the while loop ended
Runtime_run_for_return(rt, order, st) ==
    IF st.status # "ok"
    THEN \* early return: the popped tickets are gone, the rest stay queued
         [status |-> st.status,
          rt |-> [rt EXCEPT !.models = st.models,
                            !.queue = {order[j] : j \in (st.popped + 1)..Len(order)}],
          result |-> <<>>, executed |-> st.executed, visited |-> st.visited]
    ELSE [status |-> "ok",
          rt |-> [rt EXCEPT !.models = st.models,
                            !.queue = Range(st.non_executed)
                                      \cup FreshTickets(st.executed, rt.ticket_generation),
                            !.ticket_generation = rt.ticket_generation + Len(st.executed)],
          result |-> st.result, executed |-> st.executed, visited |-> st.visited]

\* order is the order in which the heap pops the tickets
Runtime_run_for_non_threaded(rt, duration, order, fails) ==
    Runtime_run_for_return(rt, order,
        RunForLoop(RunForLocals(rt, duration), order, 1, fails))

\* run_for_threaded.  The filter_map over sorted_queue keeps a ticket when
\* its model is known and either has queued items or no ticket was kept
\* before it.
ThreadedKept(models, order) ==
    {i \in DOMAIN order :
        /\ FindModel(models, order[i].brain) # 0
        /\ \/ needs_to_execute(models[FindModel(models, order[i].brain)])
           \/ \A j \in 1..(i - 1) : FindModel(models, order[j].brain) = 0}

\* the closure run by the thread pool for the kept tickets, here from
\* ticket i on; elapsed[i] is what start.elapsed() reads in the task of
\* ticket i.  st is [models, result]; an Err of model.run() is dropped.
RECURSIVE ThreadedTasks(_, _, _, _, _, _)

\* r is the answer of model.run() in the task of ticket i
ThreadedTasks_ran(st, order, i, duration, elapsed, fails, idx, r) ==
    ThreadedTasks(
        [st EXCEPT !.models[idx] = r.model,
                   !.result = IF r.status = "ok"
                              THEN (order[i].brain :> r.result) @@ st.result
                              ELSE st.result],
        order, i + 1, duration, elapsed, fails)

ThreadedTasks(st, order, i, duration, elapsed, fails) ==
    IF i > Len(order) THEN st
    ELSE IF i \notin ThreadedKept(st.initial, order) \/ elapsed[i] > duration
    THEN ThreadedTasks(st, order, i + 1, duration, elapsed, fails)
    ELSE LET idx == FindModel(st.models, order[i].brain)
         IN  IF ~can_run_in_time(st.models[idx],
                                 saturating_sub(duration, elapsed[i]))
             THEN ThreadedTasks(st, order, i + 1, duration, elapsed, fails)
             ELSE ThreadedTasks_ran(st, order, i, duration, elapsed, fails, idx,
                      ModelState_run(st.models[idx], order[i].brain \in fails))

\* the tickets of sorted_queue whose brain is in the results, in order
ThreadedFinished(order, result) ==
    SelectSeq(order, LAMBDA t : t.brain \in DOMAIN result)

\* st is what the tasks left: every popped ticket is pushed back, then a
\* fresh ticket for each finished one
Runtime_run_for_threaded_return(rt, order, st) ==
    [status |-> "ok",
     rt |-> [rt EXCEPT
               !.models = st.models,
               !.queue = Range(order)
                         \cup {Ticket(rt.ticket_generation + i - 1,
                                      ThreadedFinished(order, st.result)[i].brain) :
                                 i \in DOMAIN ThreadedFinished(order, st.result)},
               !.ticket_generation = rt.ticket_generation
                                     + Len(ThreadedFinished(order, st.result))],
     result |-> st.result]

Runtime_run_for_threaded(rt, duration, order, elapsed, fails) ==
    Runtime_run_for_threaded_return(rt, order,
        ThreadedTasks([models |-> rt.models, result |-> <<>>, initial |-> rt.models],
                      order, 1, duration, elapsed, fails))

\* the brains of the models that still hold queued items, in list order
RECURSIVE has_data(_)
has_data(models) ==
    IF models = <<>> THEN <<>>
    ELSE (IF needs_to_execute(models[1]) THEN <<models[1].id>> ELSE <<>>)
         \o has_data(Tail(models))

\* a variant that reports every model it drops
Runtime_clear_reporting_all(rt) ==
    [status |-> IF rt.models # <<>> THEN "orphaned" ELSE "ok",
     orphans |-> [i \in DOMAIN rt.models |-> rt.models[i].id],
     rt |-> [rt EXCEPT !.queue = {}, !.ticket_generation = 0, !.models = <<>>]]

Runtime_clear(rt) ==
    [status |-> IF has_data(rt.models) # <<>> THEN "orphaned" ELSE "ok",
     orphans |-> has_data(rt.models),
     rt |-> [rt EXCEPT !.queue = {}, !.ticket_generation = 0, !.models = <<>>]]

\* a variant that refuses to remove a model that has queued items
Runtime_remove_inferer_refusing(rt, brain, order) ==
    LET hit == {i \in DOMAIN order : order[i].brain = brain}
        q   == IF hit = {} THEN rt.queue
               ELSE rt.queue \ {order[CHOOSE i \in hit : \A j \in hit : i <= j]}
        idx == FindModel(rt.models, brain)
    IN  IF idx = 0
        THEN [status |-> "unknown_brain", unknown |-> brain, orphans |-> <<>>,
              rt |-> [rt EXCEPT !.queue = q]]
        ELSE IF needs_to_execute(rt.models[idx])
        THEN [status |-> "orphaned", orphans |-> <<brain>>, rt |-> rt]
        ELSE [status |-> "ok", orphans |-> <<>>,
              rt |-> [rt EXCEPT !.queue = q, !.models = RemoveAt(rt.models, idx)]]

\* a variant that does not push the popped tickets back
Runtime_remove_inferer_dropping(rt, brain, order) ==
    LET hit == {i \in DOMAIN order : order[i].brain = brain}
        q   == IF hit = {} THEN {}
               ELSE {order[i] : i \in {j \in DOMAIN order : \A h \in hit : j > h}}
        idx == FindModel(rt.models, brain)
    IN  IF idx = 0
        THEN [status |-> "unknown_brain", unknown |-> brain, orphans |-> <<>>,
              rt |-> [rt EXCEPT !.queue = q]]
        ELSE [status |-> IF needs_to_execute(rt.models[idx]) THEN "orphaned" ELSE "ok",
              orphans |-> IF needs_to_execute(rt.models[idx]) THEN <<brain>> ELSE <<>>,
              rt |-> [rt EXCEPT !.queue = q, !.models = RemoveAt(rt.models, idx)]]

\* the tickets popped before (and including) the first one of brain are
\* taken out, all but that one are pushed back
Runtime_remove_inferer(rt, brain, order) ==
    LET hit == {i \in DOMAIN order : order[i].brain = brain}
        q   == IF hit = {} THEN rt.queue
               ELSE rt.queue \ {order[CHOOSE i \in hit : \A j \in hit : i <= j]}
        idx == FindModel(rt.models, brain)
    IN  IF idx = 0
        THEN [status |-> "unknown_brain", unknown |-> brain, orphans |-> <<>>,
              rt |-> [rt EXCEPT !.queue = q]]
        ELSE [status |-> IF needs_to_execute(rt.models[idx]) THEN "orphaned" ELSE "ok",
              orphans |-> IF needs_to_execute(rt.models[idx]) THEN <<brain>> ELSE <<>>,
              rt |-> [rt EXCEPT !.queue = q, !.models = RemoveAt(rt.models, idx)]]

\* Ok(model.inferer.input_shapes()) of the model called brain
Runtime_input_shapes(rt, brain) ==
    IF FindModel(rt.models, brain) = 0
    THEN [status |-> "unknown_brain", unknown |-> brain, shapes |-> <<>>, rt |-> rt]
    ELSE [status |-> "ok", unknown |-> -1, shapes |-> RuntimeInferer.inputs, rt |-> rt]

Runtime_output_shapes(rt, brain) ==
    IF FindModel(rt.models, brain) = 0
    THEN [status |-> "unknown_brain", unknown |-> brain, shapes |-> <<>>, rt |-> rt]
    ELSE [status |-> "ok", unknown |-> -1, shapes |-> RuntimeInferer.outputs, rt |-> rt]

\* ------------------------------------------- Runtime of the crate root
\* lib.rs declares a Runtime of its own, with a queue it drains

Lib_add_inferer(rt) ==
    LET id == rt.brain_generation
    IN  [rt EXCEPT !.brain_generation = id + 1,
                   !.models = Append(rt.models, ModelState_new(id)),
                   !.queue = rt.queue \cup {Ticket(0, id)}]

\* the Result of ModelState::push is dropped
Lib_push(rt, brain, agent, state) ==
    LET i == FindModel(rt.models, brain)
    IN  IF i = 0 THEN [status |-> "unknown_brain", rt |-> rt]
        ELSE [status |-> "ok",
              rt |-> [rt EXCEPT !.models[i] =
                         ModelState_push(rt.models[i], agent, state).model]]

Lib_infer_single(rt, brain_id, state, fail) ==
    LET i == FindModel(rt.models, brain_id)
    IN  IF i = 0 THEN [status |-> "unknown_brain", rt |-> rt]
        ELSE StoreModel(rt, i, ModelState_infer_single(rt.models[i], state, fail))

\* the for loop of run from model i on: every model is run and gets an entry
RECURSIVE LibRunLoop(_, _, _, _, _)

\* result.insert(model.id, model.run()?) with the answer r of model i
LibRunLoop_insert(models, i, result, executed, fails, r) ==
    LET ms == [models EXCEPT ![i] = r.model]
    IN  IF r.status # "ok"
        THEN [status |-> r.status, models |-> ms, result |-> <<>>,
              executed |-> executed]
        ELSE LibRunLoop(ms, i + 1, result @@ (models[i].id :> r.result),
                        IF needs_to_execute(models[i])
                        THEN Append(executed, models[i].id) ELSE executed,
                        fails)

LibRunLoop(models, i, result, executed, fails) ==
    IF i > Len(models)
    THEN [status |-> "ok", models |-> models, result |-> result, executed |-> executed]
    ELSE LibRunLoop_insert(models, i, result, executed, fails,
                           ModelState_run(models[i], models[i].id \in fails))

Lib_run_return(rt, r) ==
    [status |-> r.status, rt |-> [rt EXCEPT !.models = r.models],
     result |-> r.result, executed |-> r.executed]

Lib_run(rt, fails) ==
    Lib_run_return(rt, LibRunLoop(rt.models, 1, <<>>, <<>>, fails))

\* BinaryHeap::drain hands out the tickets in arbitrary order
DrainOrders(queue) ==
    {o \in [1..Cardinality(queue) -> queue] :
        \A i, j \in 1..Cardinality(queue) : i < j => o[i] # o[j]}

\* the for loop of run_for over the drained tickets, from ticket i on;
\* duration -= start.elapsed() panics when the model took longer than what
\* is left of the budget
RECURSIVE LibRunForLoop(_, _, _, _)

\* the model at idx, whose ticket is order[i], has run and answered r
LibRunForLoop_ran(st, order, i, fails, idx, r) ==
    LET ticket  == order[i]
        elapsed == sleep_duration(st.models[idx].id)
        st1 == [st EXCEPT
                  !.models[idx] = r.model,
                  !.any_executed = TRUE,
                  !.visited = Append(st.visited,
                        [ticket |-> ticket, ran |-> TRUE,
                         ok |-> r.status = "ok",
                         before |-> st.duration, elapsed |-> elapsed])]
    IN  IF elapsed > st.duration
        THEN [st1 EXCEPT !.status = "panic"]
        ELSE IF r.status # "ok"
        THEN [st1 EXCEPT !.status = r.status]
        ELSE LibRunForLoop(
               [st1 EXCEPT !.duration = st.duration - elapsed,
                           !.result = st.result @@ (ticket.brain :> r.result),
                           !.executed = Append(st.executed, ticket.brain)],
               order, i + 1, fails)

LibRunForLoop(st, order, i, fails) ==
    IF i > Len(order) THEN st
    ELSE
      LET ticket == order[i]
          idx    == FindModel(st.models, ticket.brain)
      IN  IF idx = 0
          THEN [st EXCEPT !.status = "unknown_brain"]
          ELSE
            LET model == st.models[idx]
            IN  IF ~needs_to_execute(model)
                   \/ (st.any_executed /\ ~can_run_in_time(model, st.duration))
                THEN LibRunForLoop(
                       [st EXCEPT !.non_executed = Append(st.non_executed, ticket),
                                  !.visited = Append(st.visited,
                                      [ticket |-> ticket, ran |-> FALSE, ok |-> TRUE,
                                       before |-> st.duration, elapsed |-> 0])],
                       order, i + 1, fails)
                ELSE LibRunForLoop_ran(st, order, i, fails, idx,
                                       ModelState_run(model, ticket.brain \in fails))

\* an early return drops the Drain, which empties the queue
Lib_run_for_return(rt, st) ==
    IF st.status # "ok"
    THEN [status |-> st.status,
          rt |-> [rt EXCEPT !.models = st.models, !.queue = {}],
          result |-> <<>>, executed |-> st.executed, visited |-> st.visited]
    ELSE [status |-> "ok",
          rt |-> [rt EXCEPT !.models = st.models,
                            !.queue = Range(st.non_executed)
                                      \cup FreshTickets(st.executed, rt.ticket_generation),
                            !.ticket_generation = rt.ticket_generation + Len(st.executed)],
          result |-> st.result, executed |-> st.executed, visited |-> st.visited]

Lib_run_for(rt, duration, order, fails) ==
    Lib_run_for_return(rt, LibRunForLoop(RunForLocals(rt, duration), order, 1, fails))

Lib_clear(rt) ==
    [status |-> IF has_data(rt.models) # <<>> THEN "orphaned" ELSE "ok",
     orphans |-> has_data(rt.models),
     rt |-> [rt EXCEPT !.queue = {}, !.ticket_generation = 0, !.models = <<>>]]

\* ------------------------------------------------------------------ state
VARIABLES
    \* the Runtime
    models, queue, ticket_generation, brain_generation,
    \* what the last call on the runtime was and what it returned
    ret,
    \* some model execution has returned Err so far
    failed,
    \* per brain: the run_for calls in a row that returned without executing
    \* it although it had queued items
    wait,
    \* the lone Batcher: its ScratchPad and the inferer it is bound to
    pad, inferer,
    \* what the last call on the Batcher was and what it returned
    bret,
    \* per push since the last execute that returned Ok: [id, kind, status]
    pushed,
    \* the number of execute calls made on the Batcher
    executes,
    \* the infer_raw call in progress on a RecurrentTracker shared between
    \* threads, and the ids begun since an infer_raw last read their state
    tracker_calls

NoCalls == [call |-> <<>>, fresh |-> {}]

rvars == <<models, queue, ticket_generation, brain_generation, ret, failed, wait>>
bvars == <<pad, inferer, bret, pushed, executes, tracker_calls>>
vars  == <<models, queue, ticket_generation, brain_generation, ret, failed, wait,
           pad, inferer, bret, pushed, executes, tracker_calls>>

Brains == 0..(MaxBrains - 1)

\* the agent ids and the time budgets the callers of the runtime use
RuntimeAgents == {0}
Budgets == {0, 70, 110}

RT == [models |-> models, queue |-> queue,
       ticket_generation |-> ticket_generation,
       brain_generation |-> brain_generation]

SetRT(rt) ==
    /\ models' = rt.models
    /\ queue' = rt.queue
    /\ ticket_generation' = rt.ticket_generation
    /\ brain_generation' = rt.brain_generation

\* unknown is the BrainId an UnknownBrain error carries, -1 when none
NoRet == [op |-> "new", brain |-> -1, budget |-> -1, status |-> "ok",
          result |-> <<>>, executed |-> <<>>, visited |-> <<>>, orphans |-> <<>>,
          unknown |-> -1]

UnknownOf(r) == IF r.status = "unknown_brain" THEN r.unknown ELSE -1

\* ids, n, rows and log describe the batch an execute started from: the id
\* list, batch_size, the input rows of the pad and the pushes made
NoBret == [op |-> "new", status |-> "ok", calls |-> <<>>, result |-> <<>>,
           ids |-> <<>>, n |-> 0, rows |-> <<>>, log |-> <<>>]

ModelIds(ms) == {ms[i].id : i \in DOMAIN ms}

NeedyIds(ms) == {ms[i].id : i \in {j \in DOMAIN ms : needs_to_execute(ms[j])}}

\* every bucket can take one more sample
SampleRoom == \A i \in DOMAIN models : \A j \in DOMAIN models[i].timings :
                 models[i].timings[j].count < MaxSamples

\* the brain ids callers pass: those of the models, and one that is unknown
BrainInputs == ModelIds(models) \cup {brain_generation}

ZeroWait == [b \in Brains |-> 0]

RInit ==
    /\ models = Runtime_new.models
    /\ queue = Runtime_new.queue
    /\ ticket_generation = Runtime_new.ticket_generation
    /\ brain_generation = Runtime_new.brain_generation
    /\ ret = NoRet
    /\ failed = FALSE
    /\ wait = ZeroWait

AddInferer ==
    /\ brain_generation < MaxBrains
    /\ ticket_generation <= MaxTicket
    /\ SetRT(Runtime_add_inferer(RT))
    /\ ret' = [NoRet EXCEPT !.op = "add_inferer", !.brain = brain_generation]
    /\ UNCHANGED <<failed, wait>>
    /\ UNCHANGED bvars

Push(brain, agent, state) ==
    \E r \in {Runtime_push(RT, brain, agent, state)} :
    LET i == FindModel(models, brain)
    IN  /\ i # 0 => Batcher_len(models[i].batcher) < MaxBatch
        /\ SetRT(r.rt)
        /\ ret' = [NoRet EXCEPT !.op = "push", !.brain = brain, !.status = r.status,
                                !.unknown = UnknownOf(r)]
        /\ UNCHANGED <<failed, wait>>
        /\ UNCHANGED bvars

InferSingle(brain_id, state, fail) ==
    \E r \in {Runtime_infer_single(RT, brain_id, state, fail)} :
    LET i == FindModel(models, brain_id)
    IN  /\ SampleRoom
        /\ (i # 0 /\ Batcher_is_empty(models[i].batcher))
              => Batcher_len(models[i].batcher) < MaxBatch
        /\ SetRT(r.rt)
        /\ ret' = [NoRet EXCEPT !.op = "infer_single", !.brain = brain_id,
                                !.status = r.status, !.unknown = UnknownOf(r)]
        /\ failed' = (failed \/ (i # 0 /\ state = EmptyState /\ fail))
        /\ UNCHANGED wait
        /\ UNCHANGED bvars

Run(fails) ==
    \E r \in {Runtime_run_non_threaded(RT, fails)} :
        /\ SampleRoom
        /\ SetRT(r.rt)
        /\ ret' = [NoRet EXCEPT !.op = "run", !.status = r.status,
                                !.result = r.result, !.executed = r.executed]
        /\ failed' = (failed \/ r.status # "ok")
        /\ wait' = ZeroWait
        /\ UNCHANGED bvars

\* a brain that ran is waiting no longer; one that had items and did not
\* run has waited one more call (counted while no execution has failed)
WaitAfterRunFor(ms, executed) ==
    [b \in Brains |->
        IF b \in Range(executed) THEN 0
        ELSE IF b \in NeedyIds(ms) THEN wait[b] + 1
        ELSE 0]

RunFor(duration, order, fails) ==
    \E r \in {Runtime_run_for_non_threaded(RT, duration, order, fails)} :
        /\ SampleRoom
        /\ r.rt.ticket_generation <= MaxTicket + 1
        /\ SetRT(r.rt)
        /\ ret' = [NoRet EXCEPT !.op = "run_for", !.budget = duration,
                                !.status = r.status, !.result = r.result,
                                !.executed = r.executed, !.visited = r.visited]
        /\ failed' = (failed \/ r.status # "ok")
        /\ wait' = IF failed' THEN ZeroWait ELSE WaitAfterRunFor(models, r.executed)
        /\ UNCHANGED bvars

Clear ==
    \E r \in {Runtime_clear(RT)} :
        /\ SetRT(r.rt)
        /\ ret' = [NoRet EXCEPT !.op = "clear", !.status = r.status,
                                !.orphans = r.orphans]
        /\ wait' = ZeroWait
        /\ UNCHANGED failed
        /\ UNCHANGED bvars

RemoveInferer(brain, order) ==
    \E r \in {Runtime_remove_inferer(RT, brain, order)} :
        /\ SetRT(r.rt)
        /\ ret' = [NoRet EXCEPT !.op = "remove_inferer", !.brain = brain,
                                !.status = r.status, !.orphans = r.orphans,
                                !.unknown = UnknownOf(r)]
        /\ wait' = ZeroWait
        /\ UNCHANGED failed
        /\ UNCHANGED bvars

InputShapes(brain) ==
    \E r \in {Runtime_input_shapes(RT, brain)} :
        /\ SetRT(r.rt)
        /\ ret' = [NoRet EXCEPT !.op = "input_shapes", !.brain = brain,
                                !.status = r.status, !.result = r.shapes,
                                !.unknown = r.unknown]
        /\ UNCHANGED <<failed, wait>>
        /\ UNCHANGED bvars

OutputShapes(brain) ==
    \E r \in {Runtime_output_shapes(RT, brain)} :
        /\ SetRT(r.rt)
        /\ ret' = [NoRet EXCEPT !.op = "output_shapes", !.brain = brain,
                                !.status = r.status, !.result = r.shapes,
                                !.unknown = r.unknown]
        /\ UNCHANGED <<failed, wait>>
        /\ UNCHANGED bvars

\* the executions that return Err in one call: at most one per behaviour
FailChoices == IF failed THEN {FALSE} ELSE BOOLEAN

FailSets(S) == IF failed THEN {{}} ELSE {{}} \cup {{b} : b \in S}

\* ------------------------------------------------- one Batcher on its own
\* the inferers a Batcher is built for: one input slot of two values per
\* agent, one output slot of one value per agent
InShapes == << <<"in", 2>> >>
OutShapes == << <<"out", 1>> >>

Inferer(kind, sizes, k) ==
    [kind |-> kind, sizes |-> sizes, k |-> k, inputs |-> InShapes, outputs |-> OutShapes]

BInferers ==
    {Inferer("basic", <<>>, 0), Inferer("fixed", <<2>>, 0), Inferer("fixed", <<3, 2>>, 0),
     Inferer("dynamic", <<>>, 0), Inferer("memoizing", <<>>, 0), Inferer("test", <<>>, 2)}

BAgents == {0, 1}

\* sizes passed to Batcher::new_sized
Capacities == {0, 1}

\* the observation an agent sends
AgentData(id) == <<10 * (id + 1) + 1, 10 * (id + 1) + 2>>

\* the states callers push: a well-formed one, one with a key that is no
\* input, one whose data has the wrong length
StateOf(id, kind) ==
    CASE kind = "valid"   -> << <<"in", AgentData(id)>> >>
      [] kind = "unknown" -> << <<"bogus", AgentData(id)>> >>
      [] OTHER            -> << <<"in", <<7>> >> >>

PushKinds == {"valid", "unknown", "badlen"}

BInit ==
    /\ RInit
    /\ inferer \in BInferers
    /\ pad \in {Batcher_new(inferer)} \cup {Batcher_new_sized(inferer, c) : c \in Capacities}
    /\ bret = NoBret
    /\ pushed = <<>>
    /\ executes = 0
    /\ tracker_calls = NoCalls

\* a panic ends the program
Alive == bret.status # "panic"

BatcherPush(id, kind) ==
    \E r \in {Batcher_push(pad, id, StateOf(id, kind))} :
        /\ Alive
        /\ executes < MaxExecutes
        /\ Len(pad.ids) < MaxPush
        /\ pad' = r.pad
        /\ bret' = [NoBret EXCEPT !.op = "push", !.status = r.status]
        /\ pushed' = Append(pushed, [id |-> id, kind |-> kind, status |-> r.status])
        /\ UNCHANGED <<inferer, executes, tracker_calls>>
        /\ UNCHANGED rvars

\* extend with two states: the entries logged are the pushes it made
BatcherExtend(id1, kind2) ==
    LET id2   == (id1 + 1) % Cardinality(BAgents)
        items == << <<id1, StateOf(id1, "valid")>>, <<id2, StateOf(id2, kind2)>> >>
    IN
    \E r \in {Batcher_extend(pad, items)} :
    LET made  == Len(r.pad.ids) - Len(pad.ids)
        log   == << [id |-> id1, kind |-> "valid",
                     status |-> IF made = 1 THEN r.status ELSE "ok"],
                    [id |-> id2, kind |-> kind2, status |-> r.status] >>
    IN  /\ Alive
        /\ executes < MaxExecutes
        /\ Len(pad.ids) + 2 <= MaxPush
        /\ pad' = r.pad
        /\ bret' = [NoBret EXCEPT !.op = "extend", !.status = r.status]
        /\ pushed' = pushed \o SubSeq(log, 1, made)
        /\ UNCHANGED <<inferer, executes, tracker_calls>>
        /\ UNCHANGED rvars

\* the input rows an execute starts from, one per registered id
InputRows(p) ==
    [i \in 1..Len(p.ids) |->
        [s \in DOMAIN p.inputs |->
            IF ViewInBounds(p.inputs[s], i - 1, i)
            THEN ScratchPadData_view(p.inputs[s], i - 1, i) ELSE <<>>]]

BatcherExecute(failAt) ==
    \E r \in {Batcher_execute(pad, inferer, failAt)} :
        /\ Alive
        /\ executes < MaxExecutes
        /\ pad' = r.pad
        /\ bret' = [op |-> "execute", status |-> r.status, calls |-> r.calls,
                    result |-> r.result, ids |-> pad.ids, n |-> pad.batch_size,
                    rows |-> InputRows(pad), log |-> pushed]
        /\ pushed' = IF r.status = "ok" THEN <<>> ELSE pushed
        /\ executes' = executes + 1
        /\ UNCHANGED tracker_calls
        /\ inferer' = r.inf
        /\ UNCHANGED rvars

NextBatcher ==
    \/ \E id \in BAgents, kind \in PushKinds : BatcherPush(id, kind)
    \/ \E id1 \in BAgents, kind2 \in {"valid", "unknown"} : BatcherExtend(id1, kind2)
    \/ \E failAt \in 0..2 : BatcherExecute(failAt)

SpecBatcher == BInit /\ [][NextBatcher]_vars

\* ------------------------------------- a Batcher over a FixedBatchInferer
\* the size lists a FixedBatchInferer is configured with: every list of at
\* most two of these sizes, and the list of the documentation
FixedSizes == {0, 2, 3, 8}

FixedSizeLists ==
    {<<>>, <<1, 2, 4, 8>>}
    \cup {<<a>> : a \in FixedSizes}
    \cup {<<a, b>> : a \in FixedSizes, b \in FixedSizes}

FixedInit ==
    /\ RInit
    /\ inferer \in {Inferer("fixed", sizes, 0) : sizes \in FixedSizeLists}
    /\ pad \in {Batcher_new(inferer), Batcher_new_sized(inferer, MaxCount)}
    /\ bret = NoBret
    /\ pushed = <<>>
    /\ executes = 0
    /\ tracker_calls = NoCalls

\* select_batch_size(max_count) asked of the inferer just built
FixedSelect(max_count) ==
    /\ bret.op = "new"
    /\ bret' = [NoBret EXCEPT !.op = "select", !.n = max_count,
                              !.result = select_batch_size(inferer, max_count)]
    /\ UNCHANGED <<pad, inferer, pushed, executes, tracker_calls>>
    /\ UNCHANGED rvars

\* extend with the well-formed states of the agents 0 .. n - 1
FixedExtend(n) ==
    \E r \in {Batcher_extend(pad, [i \in 1..n |-> <<i - 1, StateOf(i - 1, "valid")>>])} :
        /\ Alive
        /\ executes < MaxExecutes
        /\ pad.ids = <<>>
        /\ pad' = r.pad
        /\ bret' = [NoBret EXCEPT !.op = "extend", !.status = r.status]
        /\ pushed' = [i \in 1..Len(r.pad.ids) |->
                        [id |-> i - 1, kind |-> "valid", status |-> r.status]]
        /\ UNCHANGED <<inferer, executes, tracker_calls>>
        /\ UNCHANGED rvars

NextFixed ==
    \/ \E max_count \in 1..MaxCount : FixedSelect(max_count)
    \/ \E n \in 1..MaxCount : FixedExtend(n)
    \/ \E failAt \in 0..1 : BatcherExecute(failAt)

SpecFixed == FixedInit /\ [][NextFixed]_vars

\* ------------------------------------- a Batcher over a RecurrentTracker
\* the wrapped inferers have the hidden state "h" as an input and as an
\* output, next to the observation "in" and the answer "out"; the Batcher
\* is built for the raw shapes, as the tracker's tests build it
RecurrentInShapes == << <<"h", 1>>, <<"in", 2>> >>
RecurrentOutShapes == << <<"h", 1>>, <<"out", 1>> >>

RecurrentInit ==
    /\ RInit
    /\ inferer \in {RecurrentTracker_wrap([inf EXCEPT !.inputs = RecurrentInShapes,
                                                      !.outputs = RecurrentOutShapes]) :
                       inf \in {Inferer("basic", <<>>, 0), Inferer("fixed", <<2>>, 0),
                                Inferer("dynamic", <<>>, 0)}}
    /\ pad = Batcher_new(inferer.inner)
    /\ bret = NoBret
    /\ pushed = <<>>
    /\ executes = 0
    /\ tracker_calls = NoCalls

BeginAgent(id) ==
    /\ Alive
    /\ executes < MaxExecutes
    /\ inferer' = RecurrentTracker_begin_agent(inferer, id)
    /\ bret' = [NoBret EXCEPT !.op = "begin_agent", !.n = id]
    /\ UNCHANGED <<pad, pushed, executes, tracker_calls>>
    /\ UNCHANGED rvars

EndAgent(id) ==
    /\ Alive
    /\ executes < MaxExecutes
    /\ inferer' = RecurrentTracker_end_agent(inferer, id)
    /\ bret' = [NoBret EXCEPT !.op = "end_agent", !.n = id]
    /\ UNCHANGED <<pad, pushed, executes, tracker_calls>>
    /\ UNCHANGED rvars

NextRecurrent ==
    \/ \E id \in BAgents : BeginAgent(id)
    \/ \E id \in BAgents : EndAgent(id)
    \/ \E id \in BAgents : BatcherPush(id, "valid")
    \/ \E failAt \in 0..2 : BatcherExecute(failAt)

SpecRecurrent == RecurrentInit /\ [][NextRecurrent]_vars

\* ------------------------------- a RecurrentTracker shared by two threads
\* One thread runs infer_raw on the view of everything pushed, in the steps
\* the locks allow: the first loop under the read lock, the inner infer_raw
\* under no lock, the second loop under the write lock.  The other thread
\* calls begin_agent and end_agent, each under the write lock.  executes
\* counts the infer_raw calls that have returned.
SharedPush(id) ==
    /\ tracker_calls.call = <<>>
    /\ BatcherPush(id, "valid")

SharedBeginAgent(id) ==
    /\ Alive
    /\ inferer' = RecurrentTracker_begin_agent(inferer, id)
    /\ bret' = [NoBret EXCEPT !.op = "begin_agent", !.n = id]
    /\ tracker_calls' = [tracker_calls EXCEPT !.fresh = @ \cup {id}]
    /\ UNCHANGED <<pad, pushed, executes>>
    /\ UNCHANGED rvars

SharedEndAgent(id) ==
    /\ Alive
    /\ inferer' = RecurrentTracker_end_agent(inferer, id)
    /\ bret' = [NoBret EXCEPT !.op = "end_agent", !.n = id]
    /\ UNCHANGED <<pad, pushed, executes, tracker_calls>>
    /\ UNCHANGED rvars

InferRawLoad ==
    /\ Alive
    /\ executes < MaxExecutes
    /\ tracker_calls.call = <<>>
    /\ pad.batch_size > 0
    /\ \A k \in DOMAIN inferer.keys :
          ViewInBounds(pad.inputs[inferer.keys[k].inslot], 0, pad.batch_size)
    /\ pad' = RecurrentTracker_load(inferer, pad, 0, pad.batch_size)
    /\ tracker_calls' = [call  |-> << [begin |-> 0, end |-> pad.batch_size,
                                       phase |-> "loaded"] >>,
                         fresh |-> tracker_calls.fresh
                                   \ Range(ViewIds(pad, 0, pad.batch_size))]
    /\ bret' = [NoBret EXCEPT !.op = "infer_raw_load"]
    /\ UNCHANGED <<inferer, pushed, executes>>
    /\ UNCHANGED rvars

InferRawInner(fail) ==
    /\ tracker_calls.call # <<>>
    /\ tracker_calls.call[1].phase = "loaded"
    /\ \E r \in {infer_raw(inferer.inner, pad, tracker_calls.call[1].begin,
                           tracker_calls.call[1].end, fail)} :
          /\ pad' = r.pad
          /\ bret' = [NoBret EXCEPT !.op = "infer_raw_inner", !.status = r.status]
          /\ tracker_calls' = [tracker_calls EXCEPT
                                 !.call = IF r.status = "ok"
                                          THEN << [@[1] EXCEPT !.phase = "inferred"] >>
                                          ELSE <<>>]
          /\ executes' = IF r.status = "ok" THEN executes ELSE executes + 1
    /\ UNCHANGED <<inferer, pushed>>
    /\ UNCHANGED rvars

InferRawStore ==
    /\ tracker_calls.call # <<>>
    /\ tracker_calls.call[1].phase = "inferred"
    /\ inferer' = [inferer EXCEPT !.per_agent_states =
                      RecurrentTracker_store(inferer, pad, tracker_calls.call[1].begin,
                                             tracker_calls.call[1].end)]
    /\ tracker_calls' = [tracker_calls EXCEPT !.call = <<>>]
    /\ bret' = [NoBret EXCEPT !.op = "infer_raw"]
    /\ executes' = executes + 1
    /\ UNCHANGED <<pad, pushed>>
    /\ UNCHANGED rvars

NextShared ==
    \/ \E id \in BAgents : SharedPush(id)
    \/ \E id \in BAgents : SharedBeginAgent(id)
    \/ \E id \in BAgents : SharedEndAgent(id)
    \/ InferRawLoad
    \/ \E fail \in BOOLEAN : InferRawInner(fail)
    \/ InferRawStore

SpecShared == RecurrentInit /\ [][NextShared]_vars

\* ------------------------------------- a Batcher over an EpsilonInjector
\* the wrapped inferers have the noise input "eps" before or after the
\* observation "in"; the Batcher is built for the injector or, as the
\* tests of the wrappers do, for the inferer before it is wrapped
EpsilonInShapes == { << <<"eps", 1>>, <<"in", 2>> >>, << <<"in", 2>>, <<"eps", 1>> >> }

EpsilonInit ==
    /\ RInit
    /\ inferer \in {EpsilonInjector_with_generator([inf EXCEPT !.inputs = shapes],
                                                   [value |-> 7], "eps") :
                       inf \in {Inferer("basic", <<>>, 0), Inferer("dynamic", <<>>, 0)},
                       shapes \in EpsilonInShapes}
    /\ pad \in {Batcher_new(inferer), Batcher_new(inferer.inner)}
    /\ bret = NoBret
    /\ pushed = <<>>
    /\ executes = 0
    /\ tracker_calls = NoCalls

NextEpsilon ==
    \/ \E id \in BAgents, kind \in {"valid", "unknown"} : BatcherPush(id, kind)
    \/ \E failAt \in 0..2 : BatcherExecute(failAt)

SpecEpsilon == EpsilonInit /\ [][NextEpsilon]_vars

\* ------------------------------ a Batcher over a MemoizingDynamicInferer
\* the lists of preloaded sizes
Preloads == {<<>>, <<1>>, <<2>>, <<3>>, <<1, 2>>, <<2, 2>>}

MemoizingInit ==
    /\ RInit
    /\ inferer \in UNION {
           {MemoizingDynamicInferer_from_model(
                [kind |-> "memoizing", sizes |-> <<>>, k |-> 0,
                 inputs |-> InShapes, outputs |-> OutShapes,
                 model_cache |-> {}, bad_sizes |-> bad, compiled |-> <<>>],
                preloaded_sizes) :
              preloaded_sizes \in {p \in Preloads : Range(p) \cap bad = {}}} :
           bad \in {{}, {3}}}
    /\ pad = Batcher_new(inferer)
    /\ bret = NoBret
    /\ pushed = <<>>
    /\ executes = 0
    /\ tracker_calls = NoCalls

NextMemoizing ==
    \/ \E id \in BAgents, kind \in {"valid", "unknown"} : BatcherPush(id, kind)
    \/ \E id1 \in BAgents : BatcherExtend(id1, "valid")
    \/ \E failAt \in 0..1 : BatcherExecute(failAt)

SpecMemoizing == MemoizingInit /\ [][NextMemoizing]_vars

BIdle ==
    /\ inferer = RuntimeInferer
    /\ pad = Batcher_new(RuntimeInferer)
    /\ bret = NoBret
    /\ pushed = <<>>
    /\ executes = 0
    /\ tracker_calls = NoCalls

Init == RInit /\ BIdle

Next ==
    \/ AddInferer
    \/ \E b \in BrainInputs, a \in RuntimeAgents : Push(b, a, EmptyState)
    \/ \E b \in BrainInputs, fail \in FailChoices : InferSingle(b, EmptyState, fail)
    \/ \E fails \in FailSets(NeedyIds(models)) : Run(fails)
    \/ \E d \in Budgets, order \in PopOrders(queue), fails \in FailSets(NeedyIds(models)) :
          RunFor(d, order, fails)
    \/ Clear
    \/ \E b \in BrainInputs, order \in PopOrders(queue) : RemoveInferer(b, order)

Spec == Init /\ [][Next]_vars

\* ------------------------------------- the Runtime of the crate root
RuntimeAlive == ret.status # "panic"

LibAddInferer ==
    /\ RuntimeAlive
    /\ brain_generation < MaxBrains
    /\ SetRT(Lib_add_inferer(RT))
    /\ ret' = [NoRet EXCEPT !.op = "add_inferer", !.brain = brain_generation]
    /\ UNCHANGED <<failed, wait>>
    /\ UNCHANGED bvars

LibPush(brain, agent, state) ==
    \E r \in {Lib_push(RT, brain, agent, state)} :
    LET i == FindModel(models, brain)
    IN  /\ RuntimeAlive
        /\ i # 0 => Batcher_len(models[i].batcher) < MaxBatch
        /\ SetRT(r.rt)
        /\ ret' = [NoRet EXCEPT !.op = "push", !.brain = brain, !.status = r.status]
        /\ UNCHANGED <<failed, wait>>
        /\ UNCHANGED bvars

LibInferSingle(brain_id, state, fail) ==
    \E r \in {Lib_infer_single(RT, brain_id, state, fail)} :
    LET i == FindModel(models, brain_id)
    IN  /\ RuntimeAlive
        /\ SampleRoom
        /\ i # 0 => Batcher_len(models[i].batcher) < MaxBatch
        /\ SetRT(r.rt)
        /\ ret' = [NoRet EXCEPT !.op = "infer_single", !.brain = brain_id,
                                !.status = r.status]
        /\ failed' = (failed \/ (i # 0 /\ state = EmptyState /\ fail))
        /\ UNCHANGED wait
        /\ UNCHANGED bvars

LibRun(fails) ==
    \E r \in {Lib_run(RT, fails)} :
        /\ RuntimeAlive
        /\ SampleRoom
        /\ SetRT(r.rt)
        /\ ret' = [NoRet EXCEPT !.op = "run", !.status = r.status,
                                !.result = r.result, !.executed = r.executed]
        /\ failed' = (failed \/ r.status # "ok")
        /\ UNCHANGED wait
        /\ UNCHANGED bvars

LibRunFor(duration, order, fails) ==
    \E r \in {Lib_run_for(RT, duration, order, fails)} :
        /\ RuntimeAlive
        /\ SampleRoom
        /\ r.rt.ticket_generation <= MaxTicket + 1
        /\ SetRT(r.rt)
        /\ ret' = [NoRet EXCEPT !.op = "run_for", !.budget = duration,
                                !.status = r.status, !.result = r.result,
                                !.executed = r.executed, !.visited = r.visited]
        /\ failed' = (failed \/ r.status = "internal")
        /\ UNCHANGED wait
        /\ UNCHANGED bvars

LibClear ==
    \E r \in {Lib_clear(RT)} :
        /\ RuntimeAlive
        /\ SetRT(r.rt)
        /\ ret' = [NoRet EXCEPT !.op = "clear", !.status = r.status,
                                !.orphans = r.orphans]
        /\ UNCHANGED <<failed, wait>>
        /\ UNCHANGED bvars

NextLib ==
    \/ LibAddInferer
    \/ \E b \in BrainInputs, a \in RuntimeAgents, st \in {EmptyState, BogusState} :
          LibPush(b, a, st)
    \/ \E b \in BrainInputs, fail \in FailChoices : LibInferSingle(b, EmptyState, fail)
    \/ \E fails \in FailSets(NeedyIds(models)) : LibRun(fails)
    \/ \E d \in Budgets, order \in DrainOrders(queue), fails \in FailSets(NeedyIds(models)) :
          LibRunFor(d, order, fails)
    \/ LibClear

SpecLib == Init /\ [][NextLib]_vars

\* ------------------- adding, removing and looking up brains; BrainIds
\* brain_generation when the behaviour starts: 0 after Runtime::new, or the
\* count of add_inferer calls made before a clear() that emptied the runtime
BrainsInit ==
    /\ models = Runtime_new.models
    /\ queue = Runtime_new.queue
    /\ ticket_generation = Runtime_new.ticket_generation
    /\ brain_generation \in {0, U16_MAX - 1}
    /\ ret = NoRet /\ failed = FALSE /\ wait = ZeroWait
    /\ BIdle

\* at most MaxBrains ids past the start or past the wrap are handed out
AddInfererChecked(overflow_checks) ==
    \E r \in {Runtime_add_inferer_checked(RT, overflow_checks)} :
        /\ (brain_generation < MaxBrains \/ brain_generation >= U16_MAX - 1)
        /\ Len(models) < MaxBrains
        /\ ticket_generation <= MaxTicket
        /\ SetRT(r.rt)
        /\ ret' = [NoRet EXCEPT !.op = "add_inferer", !.status = r.status,
                                !.brain = r.id]
        /\ UNCHANGED <<failed, wait>>
        /\ UNCHANGED bvars

NextBrains ==
    \/ \E overflow_checks \in BOOLEAN : AddInfererChecked(overflow_checks)
    \/ \E b \in BrainInputs, a \in RuntimeAgents, st \in {EmptyState, BogusState} :
          Push(b, a, st)
    \/ \E b \in BrainInputs, st \in {EmptyState, BogusState} : InferSingle(b, st, FALSE)
    \/ \E b \in BrainInputs : InputShapes(b)
    \/ \E b \in BrainInputs : OutputShapes(b)
    \/ Clear
    \/ \E b \in BrainInputs, order \in PopOrders(queue) : RemoveInferer(b, order)

SpecBrains == BrainsInit /\ [][NextBrains]_vars

\* ------------------------------------------- one ModelState and its timings
\* the model starts with a bucket for any of the batch sizes 1, 2 and 4,
\* each with one sample of 10 or 30, kept sorted by size as record_timing
\* keeps them
TimingInit ==
    /\ models \in {<<[ModelState_new(0) EXCEPT !.timings =
                         SelectSeq([i \in 1..3 |->
                                       TimingBucket_new(<<1, 2, 4>>[i], elapsed[i])],
                                   LAMBDA b : b.mean > 0)]>> :
                       elapsed \in [1..3 -> {0, 10, 30}]}
    /\ queue = {Ticket(0, 0)}
    /\ ticket_generation = 1
    /\ brain_generation = 1
    /\ ret = NoRet
    /\ failed = FALSE
    /\ wait = ZeroWait
    /\ BIdle

\* one more agent is queued for the model
TimingPush ==
    \E r \in {ModelState_push(models[1], 0, EmptyState)} :
        /\ Batcher_len(models[1].batcher) < MaxQueued
        /\ models' = <<r.model>>
        /\ ret' = [NoRet EXCEPT !.op = "push", !.brain = 0, !.status = r.status]
        /\ UNCHANGED <<queue, ticket_generation, brain_generation, failed, wait>>
        /\ UNCHANGED bvars

\* the scheduler asks whether the model fits into the budget
CanRunInTime(duration) ==
    /\ ret' = [NoRet EXCEPT !.op = "can_run_in_time", !.brain = 0,
                            !.budget = duration,
                            !.result = can_run_in_time(models[1], duration)]
    /\ UNCHANGED <<models, queue, ticket_generation, brain_generation, failed, wait>>
    /\ UNCHANGED bvars

NextTiming ==
    \/ TimingPush
    \/ \E duration \in {0, 10, 25, 60} : CanRunInTime(duration)

SpecTiming == TimingInit /\ [][NextTiming]_vars

\* ---------------------------------------------- the ConstantGenerator
\* the noise slot a generator fills: up to MaxNoise elements that hold
\* whatever an earlier inference left there
MaxNoise == 4
NoiseValues == {0, 1, 2}

GeneratorInit ==
    /\ RInit
    /\ inferer = RuntimeInferer
    /\ \E n \in 0..MaxNoise : \E data \in [1..n -> NoiseValues] :
          pad = [new_with_size(<< <<"eps", 1>> >>, <<>>, n)
                    EXCEPT !.inputs[1].data = data]
    /\ bret = NoBret
    /\ pushed = <<>>
    /\ executes = 0
    /\ tracker_calls = NoCalls

\* generator.generate(count, out) on the whole slot; made names the
\* constructor the generator came from
Generate(made, generator) ==
    /\ pad' = [pad EXCEPT !.inputs[1].data =
                  ConstantGenerator_generate(generator, Len(pad.inputs[1].data),
                                             pad.inputs[1].data)]
    /\ bret' = [NoBret EXCEPT !.op = made, !.n = generator.value]
    /\ UNCHANGED <<inferer, pushed, executes, tracker_calls>>
    /\ UNCHANGED rvars

NextGenerator ==
    \/ Generate("zeros", ConstantGenerator_zeros)
    \/ Generate("ones", ConstantGenerator_ones)
    \/ \E v \in NoiseValues \cup {7} : Generate("for_value", ConstantGenerator_for_value(v))

SpecGenerator == GeneratorInit /\ [][NextGenerator]_vars

\* ------------------------------------- a Batcher over a StatefulInferer
\* the inferer a StatefulInferer starts with has a noise input next to its
\* observation; the stack around it is BaseCase alone or has one or two
\* EpsilonInjectorWrappers
StatefulInShapes == << <<"eps", 1>>, <<"in", 2>> >>

StatefulInner == [Inferer("basic", <<>>, 0) EXCEPT !.inputs = StatefulInShapes]

WrapperStacks(inf) ==
    LET one == EpsilonInjectorWrapper_with_generator(BaseCase, inf, [value |-> 7], "eps")
    IN  {BaseCase, one,
         EpsilonInjectorWrapper_with_generator(one, inf, [value |-> 8], "eps")}

\* the inferers callers offer as replacement: the same shapes, an input or
\* an output less or more, another dimension, another name
NewInShapes ==
    {StatefulInShapes,
     << <<"eps", 1>> >>,
     << <<"eps", 1>>, <<"in", 2>>, <<"aux", 1>> >>,
     << <<"eps", 1>>, <<"in", 3>> >>,
     << <<"in", 2>>, <<"eps", 1>> >>}

NewOutShapes == {OutShapes, <<>>, << <<"out", 2>> >>}

NewInferers(kinds) ==
    {[kind |-> k, sizes |-> <<>>, k |-> 0, inputs |-> i, outputs |-> o] :
        k \in kinds, i \in NewInShapes, o \in NewOutShapes}

StatefulInit ==
    /\ RInit
    /\ inferer \in {StatefulInferer_new(w, StatefulInner) : w \in WrapperStacks(StatefulInner)}
    /\ pad \in {Batcher_new(inferer), Batcher_new(inferer.inferer)}
    /\ bret = NoBret
    /\ pushed = <<>>
    /\ executes = 0
    /\ tracker_calls = NoCalls

ReplaceInferer(new_inferer) ==
    \E r \in {StatefulInferer_replace_inferer(inferer, new_inferer)} :
        /\ Alive
        /\ inferer' = r.this
        /\ bret' = [new |-> new_inferer]
                   @@ [NoBret EXCEPT !.op = "replace_inferer", !.status = r.status]
        /\ UNCHANGED <<pad, pushed, executes, tracker_calls>>
        /\ UNCHANGED rvars

WithNewInferer(new_inferer) ==
    \E r \in {StatefulInferer_with_new_inferer(inferer, new_inferer)} :
        /\ Alive
        /\ inferer' = r.this
        /\ bret' = [new |-> new_inferer]
                   @@ [NoBret EXCEPT !.op = "with_new_inferer", !.status = r.status]
        /\ UNCHANGED <<pad, pushed, executes, tracker_calls>>
        /\ UNCHANGED rvars

NextStateful ==
    \/ \E new_inferer \in NewInferers({inferer.inferer.kind}) : ReplaceInferer(new_inferer)
    \/ \E new_inferer \in NewInferers({"dynamic"}) : WithNewInferer(new_inferer)
    \/ BatcherPush(0, "valid")
    \/ \E failAt \in 0..1 : BatcherExecute(failAt)

SpecStateful == StatefulInit /\ [][NextStateful]_vars

\* ---------------------------------------------- the timings of a Runtime
\* A Runtime of at most MaxTimedModels models whose callers queue up to
\* MaxTimedBatch agents per model before a run, run_for or infer_single.
TimedAddInferer ==
    /\ Len(models) < MaxTimedModels
    /\ AddInferer

TimedPush(brain, agent, state) ==
    \E r \in {Runtime_push(RT, brain, agent, state)} :
    LET i == FindModel(models, brain)
    IN  /\ i # 0 => Batcher_len(models[i].batcher) < MaxTimedBatch
        /\ SetRT(r.rt)
        /\ ret' = [NoRet EXCEPT !.op = "push", !.brain = brain, !.status = r.status,
                                !.unknown = UnknownOf(r)]
        /\ UNCHANGED <<failed, wait>>
        /\ UNCHANGED bvars

NextTimed ==
    \/ TimedAddInferer
    \/ \E b \in ModelIds(models), a \in RuntimeAgents : TimedPush(b, a, EmptyState)
    \/ \E b \in ModelIds(models), fail \in FailChoices : InferSingle(b, EmptyState, fail)
    \/ \E fails \in FailSets(NeedyIds(models)) : Run(fails)
    \/ \E d \in Budgets, order \in PopOrders(queue), fails \in FailSets(NeedyIds(models)) :
          RunFor(d, order, fails)

SpecTimed == Init /\ [][NextTimed]_vars

\* ------------------------------------------------ the threaded Runtime
\* what start.elapsed() can read in a task of the thread pool
ThreadedElapsed == {0, 40, 120}

RunForThreaded(duration, order, elapsed, fails) ==
    \E r \in {Runtime_run_for_threaded(RT, duration, order, elapsed, fails)} :
        /\ SampleRoom
        /\ r.rt.ticket_generation <= MaxTicket + 1
        /\ Cardinality(r.rt.queue) <= MaxTickets
        /\ SetRT(r.rt)
        /\ ret' = [NoRet EXCEPT !.op = "run_for_threaded", !.budget = duration,
                                !.status = r.status, !.result = r.result]
        /\ failed' = (failed \/ fails # {})
        /\ UNCHANGED wait
        /\ UNCHANGED bvars

NextThreaded ==
    \/ TimedAddInferer
    \/ \E b \in BrainInputs, a \in RuntimeAgents : Push(b, a, EmptyState)
    \/ \E d \in Budgets, order \in PopOrders(queue),
          fails \in FailSets(NeedyIds(models)) :
          \E elapsed \in [DOMAIN order -> ThreadedElapsed] :
              RunForThreaded(d, order, elapsed, fails)

SpecThreaded == Init /\ [][NextThreaded]_vars

\* ------------------------------------------------------------- properties
\* the tickets of a queue by ascending sequence number
AscendingTickets(q) ==
    CHOOSE o \in [1..Cardinality(q) -> q] :
        \A i, j \in 1..Cardinality(q) : i < j => o[i].seq < o[j].seq

\* the brains whose execution a run_for call started
AttemptedBrains(visited) ==
    {visited[i].ticket.brain : i \in {j \in DOMAIN visited : visited[j].ran}}

\* what is left of the budget when ticket i of the log is visited: the
\* budget minus the time the models executed before it took, at least zero
RemainingAt(budget, visited, i) ==
    LET spent == SumSeq([j \in 1..(i - 1) |->
                           IF visited[j].ran
                           THEN sleep_duration(visited[j].ticket.brain) ELSE 0])
    IN  IF budget >= spent THEN budget - spent ELSE 0

ModelOf(ms, brain) == ms[FindModel(ms, brain)]

\* every model with queued work has a timing sample
NeedyAreTimed(ms) == \A i \in DOMAIN ms : needs_to_execute(ms[i]) => ms[i].timings # <<>>

\* C1: run_for with a zero budget, called while at least one model has
\* queued work (and the models with queued work have been timed before),
\* returns Ok with exactly one brain, the one with queued work whose ticket
\* sequence is the lowest.
C1_ZeroBudgetRunsHead ==
    [][(/\ ret'.op = "run_for"
        /\ ret'.budget = 0
        /\ ret'.status = "ok"
        /\ NeedyIds(models) # {}
        /\ NeedyAreTimed(models))
       => \E b \in NeedyIds(models) :
             /\ DOMAIN ret'.result = {b}
             /\ \E t \in queue :
                   /\ t.brain = b
                   /\ \A u \in queue :
                         (u.brain \in NeedyIds(models) /\ u # t) => t.seq < u.seq]_vars

\* C2: while no execution has failed, a model with queued work is passed
\* over by at most N - 1 run_for calls in a row (N the number of models), so
\* it executes within N calls, whatever the budgets and the pushes and
\* add_inferer calls in between.
C2_NoStarvation ==
    ~failed => \A i \in DOMAIN models : wait[models[i].id] <= Len(models) - 1

\* a model of three has been passed over twice in a row
C2_Witness ==
    /\ ~failed
    /\ ret.op = "run_for"
    /\ Len(models) = 3
    /\ \E i \in DOMAIN models : wait[models[i].id] = 2

\* C3: after a run_for call that returns Ok, every model executed in the
\* call holds a ticket whose sequence number is greater than the sequence
\* number of the ticket of every model not executed in the call.
C3_ExecutedGoToTail ==
    (ret.op = "run_for" /\ ret.status = "ok")
    => \A e \in Range(ret.executed) :
          /\ \E t \in queue : t.brain = e
          /\ \A t \in queue, u \in queue :
                (t.brain = e /\ u.brain \notin Range(ret.executed)) => t.seq > u.seq

\* C4: run_for leaves the ticket of every model it does not execute as it
\* was, and afterwards that ticket is ahead of the ticket of every model the
\* call executed.
C4_SkippedKeepTickets ==
    [][ret'.op = "run_for"
       => \A t \in queue :
             t.brain \notin AttemptedBrains(ret'.visited)
             => /\ t \in queue'
                /\ \A u \in queue' :
                      u.brain \in Range(ret'.executed) => t.seq < u.seq]_vars

\* C5: one run_for call visits the tickets by ascending sequence number;
\* the first model with queued work executes, and once a model has executed
\* a later model with queued work executes exactly when can_run_in_time
\* holds for what is left of the budget (the budget minus the time taken by
\* the models executed before it); a model passed over is followed by the
\* visits of the remaining tickets.
C5_VisitsByTicketAndBudget ==
    [][ret'.op = "run_for"
       => LET v     == ret'.visited
              order == AscendingTickets(queue)
          IN  /\ Len(v) <= Len(order)
              /\ ret'.status = "ok" => Len(v) = Len(order)
              /\ \A i \in DOMAIN v :
                    /\ v[i].ticket = order[i]
                    /\ LET m     == ModelOf(models, v[i].ticket.brain)
                           first == \A j \in 1..(i - 1) : ~v[j].ran
                       IN  v[i].ran <=>
                             /\ needs_to_execute(m)
                             /\ \/ first
                                \/ can_run_in_time(m, RemainingAt(ret'.budget, v, i))]_vars

\* a call executed a model, passed over a model that had queued work, and
\* executed a model with a later ticket
C5_Witness ==
    /\ ret.op = "run_for"
    /\ ret.status = "ok"
    /\ \E i, j, k \in DOMAIN ret.visited :
          /\ i < j
          /\ j < k
          /\ ret.visited[i].ran
          /\ ~ret.visited[j].ran
          /\ ret.visited[j].ticket.brain \in NeedyIds(models)
          /\ ret.visited[k].ran

\* C6: a run() that returns Ok returns a map whose keys are exactly the
\* brains that had queued data, executed in the order of the models list,
\* and leaves every batcher empty.
C6_RunExecutesNonEmpty ==
    [][(ret'.op = "run" /\ ret'.status = "ok")
       => /\ DOMAIN ret'.result = NeedyIds(models)
          /\ Range(ret'.executed) = NeedyIds(models)
          /\ \A i, j \in DOMAIN ret'.executed :
                i < j => FindModel(models, ret'.executed[i])
                         < FindModel(models, ret'.executed[j])
          /\ \A i \in DOMAIN models' : ~needs_to_execute(models'[i])]_vars

\* C7: run() leaves the queue (the tickets and their sequence numbers) and
\* the ticket counter as they were.
C7_RunKeepsQueue ==
    [][ret'.op = "run"
       => /\ queue' = queue
          /\ ticket_generation' = ticket_generation]_vars

\* a run() executed two models while tickets were queued
C7_Witness ==
    /\ ret.op = "run"
    /\ ret.status = "ok"
    /\ Len(ret.executed) = 2
    /\ Cardinality(queue) >= 2

\* every push of the batch got a well-formed state and returned Ok
AllValid(log) == \A i \in DOMAIN log : log[i].kind = "valid" /\ log[i].status = "ok"

DistinctIds(log) == \A i, j \in DOMAIN log : i # j => log[i].id # log[j].id

\* C8: when the states pushed have pairwise distinct ids and well-formed
\* data, execute (unless the inferer fails) returns a map whose keys are
\* exactly the pushed ids, whatever chunk sizes the inferer selects.
C8_ExecuteReturnsPushedIds ==
    (/\ bret.op = "execute"
     /\ bret.status # "err"
     /\ AllValid(bret.log)
     /\ DistinctIds(bret.log))
    => /\ bret.status = "ok"
       /\ DOMAIN bret.result = {bret.log[i].id : i \in DOMAIN bret.log}

\* C9: in an execute that returns Ok, the view handed to infer_raw for the
\* positions [a, b) holds, in push order, the data pushed for the agents at
\* these positions, and the Response of the agent pushed at position i is
\* the output row i that infer_raw wrote.
C9_RowAlignment ==
    (/\ bret.op = "execute"
     /\ bret.status = "ok"
     /\ AllValid(bret.log)
     /\ DistinctIds(bret.log))
    => /\ \A c \in DOMAIN bret.calls :
             \A q \in (bret.calls[c].begin + 1)..bret.calls[c].end :
                /\ q \in DOMAIN bret.log
                /\ bret.rows[q] = <<AgentData(bret.log[q].id)>>
       /\ \A i \in DOMAIN bret.log :
             /\ \E c \in DOMAIN bret.calls :
                   bret.calls[c].begin < i /\ i <= bret.calls[c].end
             /\ bret.log[i].id \in DOMAIN bret.result
             /\ bret.result[bret.log[i].id]
                   = << <<OutValue(SumSeq(AgentData(bret.log[i].id)), 1)>> >>

\* C10: for every strategy and every positive number n of pushed agents,
\* the views handed to infer_raw in one execute (unless the inferer fails)
\* are consecutive ranges that start at 0 and end at n, none empty.
C10_ChunksCover ==
    (/\ bret.op = "execute"
     /\ bret.status # "err"
     /\ AllValid(bret.log)
     /\ bret.n > 0)
    => LET c == bret.calls
       IN  /\ c # <<>>
           /\ c[1].begin = 0
           /\ \A i \in DOMAIN c : c[i].begin < c[i].end /\ c[i].status = "ok"
           /\ \A i \in 1..(Len(c) - 1) : c[i].end = c[i + 1].begin
           /\ c[Len(c)].end = bret.n

\* C11: after an execute that returns (Ok or Err) the batcher is empty:
\* batch_size is 0 and the id list is empty; an execute on an empty
\* batcher returns an empty map.
C11_ExecuteEmptiesBatcher ==
    (bret.op = "execute" /\ bret.status # "panic")
    => /\ pad.batch_size = 0
       /\ pad.ids = <<>>
       /\ (bret.n = 0 /\ bret.ids = <<>>)
             => (bret.status = "ok" /\ bret.result = <<>> /\ bret.calls = <<>>)

\* C12: whenever the program is alive, that is after every push and extend
\* and at the start of every execute, whether the calls before returned Ok
\* or Err, the id list is as long as batch_size.
C12_IdsMatchBatchSize ==
    Alive => Len(pad.ids) = pad.batch_size

\* C13: at all times the data of every input slot and of every output slot
\* is capacity * per-sample count long, also after the capacity doubled.
C13_SlotsSpanCapacity ==
    /\ \A s \in DOMAIN pad.inputs :
          Len(pad.inputs[s].data) = pad.capacity * pad.inputs[s].count
    /\ \A o \in DOMAIN pad.outputs :
          Len(pad.outputs[o].data) = pad.capacity * pad.outputs[o].count

\* the sizes of the views handed to infer_raw, in call order
ViewSizes(calls) == [i \in DOMAIN calls |-> calls[i].end - calls[i].begin]

\* the sizes a FixedBatchInferer has a plan for: the configured ones and 1
PlanSizes(inf) == Range(inf.sizes) \cup {1}

\* C14: select_batch_size(n) of a FixedBatchInferer is the largest size of
\* S \cup {1} that is <= n, for every n >= 1; with the sizes 1, 2, 4, 8 and
\* 15 pushed agents, execute (unless the engine fails) calls infer_raw four
\* times, with views of 8, 4, 2 and 1 agents in that order.
C14_LargestSizeFirst ==
    /\ (bret.op = "select" /\ inferer.kind = "fixed")
         => /\ bret.result \in PlanSizes(inferer)
            /\ bret.result <= bret.n
            /\ \A x \in PlanSizes(inferer) : x <= bret.n => x <= bret.result
    /\ (/\ bret.op = "execute"
        /\ bret.status # "err"
        /\ inferer.kind = "fixed"
        /\ Range(inferer.sizes) = {1, 2, 4, 8}
        /\ AllValid(bret.log)
        /\ bret.n = 15)
         => /\ ViewSizes(bret.calls) = <<8, 4, 2, 1>>
            /\ \A c \in DOMAIN bret.calls : bret.calls[c].status = "ok"

\* C15: in every execute over a FixedBatchInferer each call of infer_raw
\* takes at least one queued agent and gets a view of a size that has a
\* plan, so the loop ends after at most as many calls as agents were queued.
C15_FixedExecuteTerminates ==
    (bret.op = "execute" /\ inferer.kind = "fixed")
    => /\ \A c \in DOMAIN bret.calls :
             /\ bret.calls[c].end - bret.calls[c].begin >= 1
             /\ HasPlan(inferer, bret.calls[c].end - bret.calls[c].begin)
       /\ Len(bret.calls) <= bret.n
       /\ bret.n > 0 => bret.calls # <<>>

\* an execute over the sizes 3 and 2 with six agents queued: two views of
\* three agents each
C15_Witness ==
    /\ bret.op = "execute"
    /\ bret.status = "ok"
    /\ inferer.kind = "fixed"
    /\ inferer.sizes = <<3, 2>>
    /\ bret.n = 6
    /\ ViewSizes(bret.calls) = <<3, 3>>

\* C16: the BrainIds add_inferer returns increase in call order and none is
\* returned twice: the id counter never goes down, only add_inferer moves
\* it, the call returns the value the counter had and leaves it one higher,
\* and every model in the runtime has an id below the one returned; clear
\* and remove_inferer do not touch the counter.
C16_BrainIdsNeverReused ==
    [][/\ brain_generation' >= brain_generation
       /\ brain_generation' # brain_generation => ret'.op = "add_inferer"
       /\ (ret'.op = "add_inferer" /\ ret'.status = "ok" /\ Len(models') > Len(models))
             => /\ ret'.brain = brain_generation
                /\ brain_generation' = brain_generation + 1
                /\ models'[Len(models')].id = ret'.brain
                /\ \A i \in DOMAIN models : models[i].id < ret'.brain]_vars

\* C17: add_inferer queues the new model at the tail: the call adds one
\* ticket, for the id it returns, whose sequence is greater than the
\* sequence of every ticket that was already queued.
C17_NewTicketAtTail ==
    [][(ret'.op = "add_inferer" /\ ret'.status = "ok" /\ Len(models') > Len(models))
          => /\ Cardinality(queue' \ queue) = 1
             /\ queue \subseteq queue'
             /\ \A t \in queue' \ queue :
                   /\ t.brain = ret'.brain
                   /\ \A u \in queue : u.seq < t.seq]_vars

\* C18: push, infer_single, remove_inferer, input_shapes and output_shapes
\* called with a BrainId that no model of the runtime has return
\* UnknownBrain carrying that id, and the models with their batchers, the
\* ticket queue and both counters are as before the call.
C18_UnknownBrainChangesNothing ==
    [][(/\ ret'.op \in {"push", "infer_single", "remove_inferer",
                        "input_shapes", "output_shapes"}
        /\ FindModel(models, ret'.brain) = 0)
          => /\ ret'.status = "unknown_brain"
             /\ ret'.unknown = ret'.brain
             /\ UNCHANGED <<models, queue, ticket_generation, brain_generation>>]_vars

\* remove_inferer of an unknown brain on a runtime with two tickets queued
\* and a model that has queued items
C18_Witness ==
    /\ ret.op = "remove_inferer"
    /\ ret.status = "unknown_brain"
    /\ ret.unknown = ret.brain
    /\ FindModel(models, ret.brain) = 0
    /\ Cardinality(queue) = 2
    /\ \E i \in DOMAIN models : needs_to_execute(models[i])

\* C19: remove_inferer(b) for a model b of the runtime takes b out of the
\* models and b's ticket out of the queue, leaves every other model, every
\* other ticket and both counters as they were, and returns
\* OrphanedData([b]) exactly when b had queued items, Ok otherwise; the
\* removal is made in both cases.
C19_RemoveInfererRemovesOne ==
    [][(ret'.op = "remove_inferer" /\ FindModel(models, ret'.brain) # 0)
          => /\ models' = RemoveAt(models, FindModel(models, ret'.brain))
             /\ queue' = {t \in queue : t.brain # ret'.brain}
             /\ ticket_generation' = ticket_generation
             /\ brain_generation' = brain_generation
             /\ ret'.status =
                   IF needs_to_execute(models[FindModel(models, ret'.brain)])
                   THEN "orphaned" ELSE "ok"
             /\ ret'.orphans =
                   IF needs_to_execute(models[FindModel(models, ret'.brain)])
                   THEN <<ret'.brain>> ELSE <<>>]_vars

\* remove_inferer has returned OrphanedData([b]); b is gone, the other two
\* models and their tickets remain
C19_Witness ==
    /\ ret.op = "remove_inferer"
    /\ ret.status = "orphaned"
    /\ ret.orphans = <<ret.brain>>
    /\ FindModel(models, ret.brain) = 0
    /\ Len(models) = 2
    /\ Cardinality(queue) = 2

\* C20: clear() leaves no model and no ticket and returns OrphanedData
\* listing, once each, exactly the brains that had queued items, Ok when
\* none had; a run() right after a clear returns Ok with an empty map and a
\* clear() right after a clear returns Ok.
C20_ClearDropsEverything ==
    [][/\ ret'.op = "clear"
          => /\ models' = <<>>
             /\ queue' = {}
             /\ Range(ret'.orphans) = NeedyIds(models)
             /\ Len(ret'.orphans) = Cardinality(NeedyIds(models))
             /\ ret'.status = IF NeedyIds(models) = {} THEN "ok" ELSE "orphaned"
       /\ (ret.op = "clear" /\ ret'.op = "run")
          => (ret'.status = "ok" /\ DOMAIN ret'.result = {})
       /\ (ret.op = "clear" /\ ret'.op = "clear")
          => (ret'.status = "ok" /\ ret'.orphans = <<>>)]_vars

\* clear() has dropped three models and reported the two that had queued
\* items
C20_Witness ==
    /\ ret.op = "clear"
    /\ ret.status = "orphaned"
    /\ Len(ret.orphans) = 2
    /\ brain_generation = 3
    /\ models = <<>>
    /\ queue = {}

\* C21: infer_single leaves what is queued for the brain as it was: the
\* ids of the queued agents, their number and their input rows are the
\* same after the call as before it, whether the batcher was empty or not
\* and whether the call returned Ok or Err.
C21_InferSingleKeepsQueued ==
    [][(ret'.op = "infer_single" /\ FindModel(models, ret'.brain) # 0)
          => \E i \in {FindModel(models, ret'.brain)} :
                /\ Len(models') = Len(models)
                /\ models'[i].batcher.ids = models[i].batcher.ids
                /\ models'[i].batcher.batch_size = models[i].batcher.batch_size
                /\ needs_to_execute(models'[i]) = needs_to_execute(models[i])
                /\ InputRows(models'[i].batcher) = InputRows(models[i].batcher)]_vars

\* row p (from 0) of slot s of a ScratchPad's inputs or outputs
SlotRow(slots, s, p) == ScratchPadData_view(slots[s], p, p + 1)

\* the rows among the first n that hold the observation of agent id
RowsOf(p, n, id) == {q \in 0..(n - 1) : SlotRow(p.inputs, 2, q) = AgentData(id)}

\* C22: a tracked agent's recurrent input is its own previous recurrent
\* output: begin_agent(id) stores zeros for id, nothing but an execute
\* changes a stored state, and an execute that returns Ok shows the inner
\* inferer, in the row of every tracked agent that is once in the batch,
\* the state stored for that agent, and stores the recurrent output of that
\* row for the agent.
C22_RecurrentInputIsPreviousOutput ==
    [][/\ bret'.op = "begin_agent"
          => inferer'.per_agent_states[bret'.n] = [x \in 1..inferer.agent_state_size |-> 0]
       /\ bret'.op \in {"begin_agent", "end_agent"}
          => \A id \in (DOMAIN inferer.per_agent_states
                          \cap DOMAIN inferer'.per_agent_states) \ {bret'.n} :
                 inferer'.per_agent_states[id] = inferer.per_agent_states[id]
       /\ bret'.op = "push" => inferer' = inferer
       /\ (bret'.op = "execute" /\ bret'.status = "ok")
          => \A id \in DOMAIN inferer.per_agent_states :
                \A q \in RowsOf(pad', bret'.n, id) :
                   Cardinality(RowsOf(pad', bret'.n, id)) = 1
                   => /\ SlotRow(pad'.inputs, 1, q) = inferer.per_agent_states[id]
                      /\ inferer'.per_agent_states[id] = SlotRow(pad'.outputs, 1, q)]_vars

\* C23: recurrent state is per agent: whenever an execute changes the
\* stored state of a tracked agent, the batch holds a row of that agent
\* and the new state is the recurrent output of such a row; no state is
\* created or destroyed by an execute.
C23_RecurrentStatePerAgent ==
    [][bret'.op = "execute"
          => /\ DOMAIN inferer'.per_agent_states = DOMAIN inferer.per_agent_states
             /\ \A id \in DOMAIN inferer.per_agent_states :
                   inferer'.per_agent_states[id] # inferer.per_agent_states[id]
                   => \E q \in RowsOf(pad', bret'.n, id) :
                         inferer'.per_agent_states[id] = SlotRow(pad'.outputs, 1, q)]_vars

\* the ScratchPad p has exactly the input slots the shapes name
BuiltFor(p, shapes) ==
    [i \in DOMAIN p.inputs |-> <<p.inputs[i].name, p.inputs[i].count>>] = shapes

\* C24: the input shapes of an EpsilonInjector for the key "eps" have no
\* entry "eps"; a Batcher built for the injector accepts a state without
\* "eps"; and an execute on it does not panic and, for every view handed
\* to infer_raw, leaves in the slot at the injector's index, which is the
\* slot "eps" the inner inferer reads, count x view.len() generated values.
C24_EpsilonFillsNoiseSlot ==
    /\ [](\A i \in DOMAIN inferer.inputs : inferer.inputs[i][1] # "eps")
    /\ [][BuiltFor(pad, inferer.inputs)
            => /\ (bret'.op = "push" /\ pushed'[Len(pushed')].kind = "valid")
                  => bret'.status = "ok"
               /\ bret'.op = "execute"
                  => /\ bret'.status # "panic"
                     /\ \A c \in DOMAIN bret'.calls :
                           /\ inferer.index \in DOMAIN pad'.inputs
                           /\ pad'.inputs[inferer.index].name = "eps"
                           /\ ScratchPadData_view(pad'.inputs[inferer.index],
                                                  bret'.calls[c].begin, bret'.calls[c].end)
                              = [i \in 1..(inferer.count * (bret'.calls[c].end
                                                            - bret'.calls[c].begin)) |->
                                    inferer.generator.value]]_vars

C26_OneTicketPerModel ==
    ~failed
    => /\ {t.brain : t \in queue} = ModelIds(models)
       /\ \A t, u \in queue : t # u => (t.brain # u.brain /\ t.seq # u.seq)

\* C27: a run or run_for in which a model's execution fails returns that
\* error and an empty result; the failed model is the last one it ran:
\* run leaves every model behind it in the list untouched, run_for every
\* model whose ticket it had not popped yet.
C27_FailFast ==
    [][/\ (ret'.op = "run" /\ ret'.status # "ok")
          => /\ ret'.status = "internal"
             /\ ret'.result = <<>>
             /\ ret'.executed # <<>>
             /\ \E i \in {FindModel(models, ret'.executed[Len(ret'.executed)])} :
                   /\ i # 0
                   /\ \A j \in DOMAIN ret'.executed :
                         j < Len(ret'.executed)
                         => FindModel(models, ret'.executed[j]) < i
                   /\ \A j \in (i + 1)..Len(models) : models'[j] = models[j]
       /\ (ret'.op = "run_for" /\ ret'.status # "ok")
          => /\ ret'.status = "internal"
             /\ ret'.result = <<>>
             /\ ret'.visited # <<>>
             /\ ~ret'.visited[Len(ret'.visited)].ok
             /\ \A j \in 1..(Len(ret'.visited) - 1) : ret'.visited[j].ok
             /\ \A j \in DOMAIN models :
                   (\A v \in DOMAIN ret'.visited :
                       ret'.visited[v].ticket.brain # models[j].id)
                   => models'[j] = models[j]]_vars

\* a run_for has executed one model, failed in the second and returned
\* the error with an empty result while a third model still has its items
C27_Witness ==
    /\ ret.op = "run_for"
    /\ ret.status = "internal"
    /\ ret.result = <<>>
    /\ Len(ret.executed) = 1
    /\ Len(ret.visited) = 2
    /\ ret.visited[1].ran
    /\ Len(models) = 3
    /\ \E j \in DOMAIN models :
          /\ needs_to_execute(models[j])
          /\ \A v \in DOMAIN ret.visited : ret.visited[v].ticket.brain # models[j].id

\* C28: when run_for returns the error of a failed execution, every model
\* of the runtime still has a ticket in the queue.
C28_FailedRunForKeepsTickets ==
    [][(ret'.op = "run_for" /\ ret'.status # "ok")
          => \A j \in DOMAIN models' : \E t \in queue' : t.brain = models'[j].id]_vars

\* C29: a push that returns the error of an unknown key leaves the
\* batcher as it was: the id list and the length are what they were before
\* the call, and the result of an execute only has agents whose push
\* returned Ok.
C29_RejectedPushLeavesBatcher ==
    /\ [][(bret'.op = "push" /\ bret'.status = "err")
             => /\ pad'.ids = pad.ids
                /\ Batcher_len(pad') = Batcher_len(pad)]_vars
    /\ []((bret.op = "execute" /\ bret.status = "ok")
             => \A id \in DOMAIN bret.result :
                   \E i \in DOMAIN bret.log :
                      bret.log[i].id = id /\ bret.log[i].status = "ok")

\* the positions of the buckets next to the batch size n: the largest
\* bucket below n and the smallest bucket above n
Neighbours(timings, n) ==
    {i \in DOMAIN timings :
        \/ timings[i].size < n /\ \A j \in DOMAIN timings :
                                    timings[j].size < n => timings[j].size <= timings[i].size
        \/ timings[i].size > n /\ \A j \in DOMAIN timings :
                                    timings[j].size > n => timings[j].size >= timings[i].size}

\* C30: can_run_in_time(budget) of a model with n queued agents is true
\* when the model has no samples; with a bucket of size n it is whether
\* that bucket's mean is at most the budget; with n above every recorded
\* size it is whether the mean of the largest bucket, scaled linearly to n
\* agents, is at most the budget; otherwise it is that comparison for a
\* bucket next to n.
C30_CanRunInTime ==
    ret.op = "can_run_in_time"
    => LET n == Batcher_len(models[1].batcher)
           timings == models[1].timings
           fits(i) == timings[i].mean * n <= ret.budget * timings[i].size
       IN  IF timings = <<>> THEN ret.result = TRUE
           ELSE IF \E i \in DOMAIN timings : timings[i].size = n
           THEN \A i \in DOMAIN timings :
                   timings[i].size = n => ret.result = (timings[i].mean <= ret.budget)
           ELSE IF \A i \in DOMAIN timings : timings[i].size < n
           THEN ret.result = fits(Len(timings))
           ELSE \E i \in Neighbours(timings, n) : ret.result = fits(i)

\* three agents are queued for a model with a bucket for 2 and a bucket for
\* 4: the mean 30 of the bucket for 2 scales to 45, which is over the
\* budget 25
C30_Witness ==
    /\ ret.op = "can_run_in_time"
    /\ ret.budget = 25
    /\ ret.result = FALSE
    /\ Batcher_len(models[1].batcher) = 3
    /\ Len(models[1].timings) = 2
    /\ models[1].timings[1].size = 2
    /\ models[1].timings[1].mean = 30
    /\ models[1].timings[2].size = 4
    /\ models[1].timings[2].mean = 10

\* C31: in run_for the budget left after a model has executed is the budget
\* before it minus the model's elapsed time, zero when the model took
\* longer than what was left; the call does not panic on that, and after an
\* execution that returned Ok it goes on to the remaining tickets.
C31_BudgetSaturates ==
    [][ret'.op = "run_for"
       => /\ ret'.status # "panic"
          /\ \A j \in DOMAIN ret'.visited :
               LET v == ret'.visited[j]
               IN  /\ v.before = RemainingAt(ret'.budget, ret'.visited, j)
                   /\ (v.ran /\ v.ok /\ j < Cardinality(queue))
                      => j < Len(ret'.visited)]_vars

\* the buckets are in strictly ascending order of size
BucketsSorted(timings) ==
    \A i, j \in DOMAIN timings : i < j => timings[i].size < timings[j].size

\* the number of samples recorded for batches of k agents
SamplesOf(timings, k) ==
    SumSeq([i \in DOMAIN timings |-> IF timings[i].size = k THEN timings[i].count ELSE 0])

\* the brains whose execution returned Ok in the call that answered r
ExecutedOk(r) ==
    CASE r.op = "run" ->
           {r.executed[j] : j \in {n \in DOMAIN r.executed :
                                      r.status = "ok" \/ n < Len(r.executed)}}
      [] r.op = "run_for" ->
           {r.visited[j].ticket.brain :
              j \in {n \in DOMAIN r.visited : r.visited[n].ran /\ r.visited[n].ok}}
      [] r.op = "infer_single" -> IF r.status = "ok" THEN {r.brain} ELSE {}
      [] OTHER -> {}

\* C32: the timing buckets of every model are in ascending order of batch
\* size with at most one bucket per size; a run or run_for adds one sample
\* to the bucket of size k of every model it executed successfully with k
\* agents queued, a successful infer_single adds one sample to the bucket
\* of size 1, and nothing else is added (a failed execution adds none).
C32_TimingBuckets ==
    /\ [](\A i \in DOMAIN models : BucketsSorted(models[i].timings))
    /\ [][ret'.op \in {"run", "run_for", "infer_single"}
          => /\ Len(models') = Len(models)
             /\ \A i \in DOMAIN models : \A k \in 0..(MaxTimedBatch + 1) :
                  SamplesOf(models'[i].timings, k)
                  = SamplesOf(models[i].timings, k)
                    + (IF /\ models[i].id \in ExecutedOk(ret')
                          /\ k = (IF ret'.op = "infer_single" THEN 1
                                  ELSE Batcher_len(models[i].batcher))
                       THEN 1 ELSE 0)]_vars

\* an infer_single has just succeeded and opened the bucket for size 1 in
\* front of the bucket for size 2 the model already had
C32_Witness ==
    /\ ret.op = "infer_single"
    /\ ret.status = "ok"
    /\ \E i \in DOMAIN models :
         /\ models[i].id = ret.brain
         /\ Len(models[i].timings) = 2
         /\ models[i].timings[1].size = 1
         /\ models[i].timings[1].count = 1
         /\ models[i].timings[2].size = 2
         /\ models[i].timings[2].count = 1

\* C33: replace_inferer and with_new_inferer answer Ok exactly when the
\* new inferer's raw input shapes and raw output shapes equal those of the
\* current inferer; on Ok the new inferer is installed and the wrapper
\* stack is the one it was, on Err the StatefulInferer is unchanged.
C33_ReplaceNeedsEqualShapes ==
    [][bret'.op \in {"replace_inferer", "with_new_inferer"}
       => /\ (bret'.status = "ok")
             <=> (/\ raw_input_shapes(bret'.new) = raw_input_shapes(inferer.inferer)
                  /\ raw_output_shapes(bret'.new) = raw_output_shapes(inferer.inferer))
          /\ bret'.status = "ok"
             => /\ inferer'.inferer = bret'.new
                /\ inferer'.wrapper_stack = inferer.wrapper_stack
          /\ bret'.status # "ok" => inferer' = inferer]_vars

\* C37: every infer_raw call an execute makes on the StatefulInferer
\* reaches the wrapped inferer's infer_raw exactly once, whatever the
\* wrapper stack is.
C37_InnerCalledOnce ==
    [][bret'.op = "execute"
       => inferer'.invoked = inferer.invoked + Len(bret'.calls)]_vars

C36_NextKeepsRowInside ==
    [][bret'.op \in {"push", "extend"} /\ pad'.batch_size > pad.batch_size
       => /\ pad'.batch_size <= pad'.capacity
          /\ \A s \in DOMAIN pad'.inputs :
               ViewInBounds(pad'.inputs[s], pad'.batch_size - 1, pad'.batch_size)]_vars

\* C38: after generate, every element of the noise slot is 0 for the
\* generator made by zeros(), 1 for the one made by ones(), and v for the
\* one made by for_value(v).
C38_ConstantGeneratorValues ==
    [][/\ bret'.op \in {"zeros", "ones", "for_value"}
       => \A i \in DOMAIN pad'.inputs[1].data :
            pad'.inputs[1].data[i] = (CASE bret'.op = "zeros" -> 0
                                        [] bret'.op = "ones"  -> 1
                                        [] OTHER              -> bret'.n)]_vars

====
